---- MODULE Spec2Model ----
(***************************************************************************)
(* A model of egui-states: the signal dispatch pipeline                    *)
(* (egui_states/signals.py, egui_states/server.py) and the graph handles   *)
(* of ValueGraphs (egui_states/structures.py).                             *)
(*                                                                         *)
(* The compiled core (egui_states._core.StateServerCore) is not part of    *)
(* the Python sources; the few things the model needs from it (the inbound *)
(* event queue, the running flag) follow the written specification.        *)
(* Variables whose comment says "ghost" are history variables: they record *)
(* what was called or sent and never influence a guard.                    *)
(***************************************************************************)
EXTENDS Integers, Sequences, FiniteSets, TLC

\* ------------------------------------------------------------------ bounds
MaxIds == 2
MaxConnectIds == 1
MaxCallbacks == 2
MaxEvents == 2
MaxThreads == 4
WorkersCount == 2
MaxHandles == 3
MaxIdx == 1
MaxObjects == 3
MaxNodes == 3
MaxLoggers == 2
MaxLevel == 4
MaxForms == 3
MaxCallers == 2
MaxVal == 1
MaxWire == 4
MaxConnects == 2
MaxUpdates == 2
MaxFields == 2
MaxMembers == 3
MaxEnumValue == 2

Ids == 1..MaxIds
\* The ids the application connects callbacks to while the workers run; the
\* other ids are the ones nobody ever connected to.
ConnectIds == 1..MaxConnectIds
\* The callables an application connects.
Funcs == {"f", "g"}
\* Error handlers: the default one and one supplied by the application.
Handlers == {"default", "h1"}
\* What set_error_handler / the constructor may be given.
HandlerArgs == {"None", "h1"}
Threads == 1..MaxThreads

VARIABLES
    callbacks,      \* SignalsManager._callbacks: the list stored under each key
    cbKeys,         \* the keys of SignalsManager._callbacks
    error_handler,  \* SignalsManager._error_handler
    workers,        \* SignalsManager._workers: list of thread objects
    threads,        \* every thread object created so far and where it is in _run
    nthreads,       \* number of thread objects created
    running,        \* core: server started and not stopped
    emitted,        \* core: ids of the events handed to the pipeline, in arrival order
    queue,          \* core: events waiting to be fetched (indices into emitted)
    registered,     \* ghost: last value passed to value_set_register per id
    sentTrue,       \* ghost: ids for which value_set_register(id, True) was ever sent
    everNonEmpty,   \* ghost: ids whose callback list was ever non-empty
    fetched,        \* ghost: how many times each event was returned by value_get_signal
    graphs,         \* ValueGraphs._graphs: idx -> handle (0: no entry)
    handles,        \* every Graph object created: its idx and _deleted
    nhandles,       \* number of Graph objects created
    removedBy,      \* ghost: how each handle left ValueGraphs._graphs
    sinceClear,     \* ghost: clear() was called and no set() since
    gres,           \* ghost: the last graph operation, its outcome and its core calls
    package,        \* which package the ValueGraphs object is of: egui_states or egui_pysync
    counter,        \* egui_pysync: _Counter._counter
    objects,        \* egui_pysync: the state objects constructed so far, kind and _value_id
    phase,          \* egui_pysync: "construct" until StateServer.__init__ has run, then "open"
    ps_callbacks,   \* egui_pysync: _SignalsManager._callbacks[id][0], the list
    ps_keys,        \* egui_pysync: the keys of _SignalsManager._callbacks
    ps_sent,        \* ghost: last value passed to value_set_register per id
    ps_gone,        \* ghost: <<id, f>> disconnected after being connected once, not connected since
    ps_res,         \* ghost: the last event dispatched, or the last call that raised
    tree,           \* the states object handed to StateServerBase: its attributes
    stack,          \* _initialize: the recursion, one frame per object being walked
    regs,           \* core: the registration calls received, in order
    finalized,      \* core: number of finalize() calls received
    logging,        \* StateServerBase.logging exists (LoggingSignal constructed)
    lastOp,         \* ghost: the last core call of update / Value.set
    loggers,        \* LoggingSignal._loggers: the list of each level
    fan,            \* LoggingSignal._callback in progress: message, loop position, ghosts
    logres,         \* ghost: the last _callback call that ended
    mode,           \* core: the mode of each id, "single" or "multi"
    lastInv,        \* ghost: the event of the latest callback invocation per id
    conn,           \* the callables connected to one id, each of one form
    disp,           \* _run: the for loop over them for one event, and how each was called
    callers,        \* application threads inside a call of the manager: where each is
    peer,           \* core: a client is connected
    store,          \* core: the current value of each registered object
    dirty,          \* core: the objects set since they were last sent
    wire,           \* core: the messages sent to the peer since it connected
    timers,         \* core: flushes scheduled by update(duration) and not yet run
    connects,       \* ghost: how many times a peer has connected
    calls,          \* ghost: update(duration) calls since the last scheduled flush ran
    structs,        \* binding generator: the _order of each _Struct of the structs dict
    items,          \* binding generator: the id in the text of each _items entry, Star while "*"
    id_counter,     \* binding generator: id_counter of the running set_id call, 0 before _write_states
    frames,         \* binding generator: the set_id calls in progress, innermost last
    body,           \* the body of a FastEnum subclass: the value of each name, in declared order
    member_list,    \* cls._member_list of that subclass
    enumres         \* ghost: the last call of index / from_index and what it gave

sigVars == <<callbacks, cbKeys, error_handler, registered, sentTrue, everNonEmpty>>
poolVars == <<workers, threads, nthreads>>
coreVars == <<running, emitted, queue, fetched>>
graphVars == <<graphs, handles, nhandles, removedBy, sinceClear, gres>>
\* what the other packages and parts of the model add
pysyncVars == <<counter, objects, phase, ps_callbacks, ps_keys, ps_sent, ps_gone, ps_res>>
walkVars == <<tree, stack, regs, finalized, logging, lastOp>>
logVars == <<loggers, fan, logres>>
modeVars == <<mode, lastInv>>
formVars == <<conn, disp>>
raceVars == <<callers>>
syncVars == <<peer, store, dirty, wire, timers, connects, calls>>
genVars == <<structs, items, id_counter, frames>>
enumVars == <<body, member_list, enumres>>
moreVars == <<formVars, raceVars, syncVars, genVars, enumVars>>
extVars == <<package, pysyncVars, walkVars, logVars, modeVars, moreVars>>
\* extVars without the ghost the dispatch loop writes
extButInv == <<package, pysyncVars, walkVars, logVars, mode, moreVars>>
\* everything but the forms of callables
notForms == <<sigVars, poolVars, coreVars, graphVars, package, pysyncVars, walkVars,
             logVars, modeVars, raceVars, syncVars, genVars, enumVars>>
\* what no call of the signals manager touches
notRace == <<graphVars, package, pysyncVars, walkVars, logVars, modeVars, formVars, syncVars,
            genVars, enumVars>>
\* everything but the core's store and its link to the peer
notSync == <<sigVars, poolVars, coreVars, graphVars, package, pysyncVars, walkVars,
            logVars, modeVars, formVars, raceVars, genVars, enumVars>>
\* everything but the binding generator
notGen == <<sigVars, poolVars, coreVars, graphVars, package, pysyncVars, walkVars,
           logVars, modeVars, formVars, raceVars, syncVars, enumVars>>
\* everything but the FastEnum subclass
notEnum == <<sigVars, poolVars, coreVars, graphVars, package, pysyncVars, walkVars,
            logVars, modeVars, formVars, raceVars, syncVars, genVars>>
\* everything but the egui_pysync registry and signals manager
notPysync == <<sigVars, poolVars, coreVars, graphVars, package, walkVars, logVars, modeVars,
              moreVars>>
\* everything but the construction of the egui_states server
notWalk == <<poolVars, coreVars, graphVars, package, pysyncVars, logVars, lastInv, moreVars>>
\* everything but the LoggingSignal
notLog == <<sigVars, poolVars, coreVars, graphVars, package, pysyncVars, walkVars, modeVars,
           moreVars>>
vars == <<sigVars, poolVars, coreVars, graphVars, extVars>>

\* --------------------------------------------------------------- helpers
NoError == [kind |-> "none", id |-> 0, cb |-> "-"]
\* The exception a callback raised.
CallbackError(f) == [kind |-> "callback", id |-> 0, cb |-> f]
\* IndexError(f"Signal with index {ind} not found.")
IndexError(ind) == [kind |-> "IndexError", id |-> ind, cb |-> "-"]

\* ghost: one call of the error handler
HandlerCall(h, e) == [h |-> h, err |-> e]
NoCall == HandlerCall("-", NoError)

\* A thread object that does not exist yet.
Unborn ==
    [st |-> "unborn", arg |-> 0, pc |-> "fetch", cur |-> 0, pos |-> 0,
     err |-> NoError, inv |-> <<>>, hcall |-> NoCall, modified |-> FALSE]

\* A thread back at the top of the while loop, blocked in value_get_signal.  The
\* ghost fields of the event just handled are dropped, but for the handler call
\* that ended it (an event that had no callback).
Idle(th, call) ==
    [th EXCEPT !.pc = "fetch", !.pos = 0, !.err = NoError, !.inv = <<>>,
               !.hcall = call, !.modified = FALSE]

\* A thread whose _run was left by the exception of the handler call `call`:
\* is_alive() is false from now on.
Dead(th, call) == [Idle(th, call) EXCEPT !.st = "dead"]

\* threading.Thread(target=self._run, args=(i,), ...) followed by start()
NewThread(i) == [Unborn EXCEPT !.st = "running", !.arg = i]

\* list.remove(x): removes the first occurrence of x
RECURSIVE RemoveFirst(_, _)
RemoveFirst(s, x) ==
    IF s = <<>> THEN <<>>
    ELSE IF Head(s) = x THEN Tail(s)
    ELSE <<Head(s)>> \o RemoveFirst(Tail(s), x)

InList(s, x) == \E k \in 1..Len(s) : s[k] = x

Count(s, x) == Cardinality({k \in 1..Len(s) : s[k] = x})

\* Threads that are between fetching an event and finishing its dispatch.
Dispatching(t) == threads[t].st = "running" /\ threads[t].pc \in {"iter", "except"}

\* Thread t holds an event it was given and has not finished.
Busy(t) == threads[t].st = "running" /\ threads[t].pc \in {"lookup", "iter", "except"}

\* ghost: a change of the list of `id` is noted on every thread dispatching `id`
NoteModified(id) ==
    [t \in Threads |->
        IF Dispatching(t) /\ threads[t].cur # 0 /\ emitted[threads[t].cur] = id
        THEN [threads[t] EXCEPT !.modified = TRUE]
        ELSE threads[t]]

\* ------------------------------------------------------- SignalsManager
\* add_callback(value_id, callback)
add_callback(id, f) ==
    /\ Len(callbacks[id]) < MaxCallbacks
    /\ callbacks' = [callbacks EXCEPT ![id] = Append(@, f)]
    /\ cbKeys' = cbKeys \cup {id}
    /\ registered' = [registered EXCEPT ![id] = "True"]
    /\ sentTrue' = sentTrue \cup {id}
    /\ everNonEmpty' = everNonEmpty \cup {id}
    /\ threads' = NoteModified(id)
    /\ UNCHANGED <<error_handler, workers, nthreads, coreVars, graphVars, extVars>>

\* remove_callback that forgets value_set_register(value_id, False)
remove_callback_NoUnregister(id, f) ==
    /\ IF id \in cbKeys /\ InList(callbacks[id], f)
       THEN /\ callbacks' = [callbacks EXCEPT ![id] = RemoveFirst(@, f)]
            /\ threads' = NoteModified(id)
       ELSE UNCHANGED <<callbacks, threads>>
    /\ UNCHANGED <<cbKeys, error_handler, registered, sentTrue, everNonEmpty,
                   workers, nthreads, coreVars, graphVars, extVars>>

\* remove_callback(value_id, callback)
remove_callback(id, f) ==
    /\ IF id \in cbKeys /\ InList(callbacks[id], f)
       THEN /\ callbacks' = [callbacks EXCEPT ![id] = RemoveFirst(@, f)]
            /\ registered' = IF callbacks'[id] = <<>>
                             THEN [registered EXCEPT ![id] = "False"]
                             ELSE registered
            /\ threads' = NoteModified(id)
       ELSE UNCHANGED <<callbacks, registered, threads>>
    /\ UNCHANGED <<cbKeys, error_handler, sentTrue, everNonEmpty, workers,
                   nthreads, coreVars, graphVars, extVars>>

\* clear_callbacks(value_id)
clear_callbacks(id) ==
    /\ IF id \in cbKeys
       THEN /\ callbacks' = [callbacks EXCEPT ![id] = <<>>]
            /\ registered' = [registered EXCEPT ![id] = "False"]
            /\ threads' = IF callbacks[id] # <<>> THEN NoteModified(id) ELSE threads
       ELSE UNCHANGED <<callbacks, registered, threads>>
    /\ UNCHANGED <<cbKeys, error_handler, sentTrue, everNonEmpty, workers,
                   nthreads, coreVars, graphVars, extVars>>

\* set_error_handler(error_handler): None selects the default handler
set_error_handler(h) ==
    /\ error_handler' = IF h = "None" THEN "default" ELSE h
    /\ UNCHANGED <<callbacks, cbKeys, registered, sentTrue, everNonEmpty,
                   poolVars, coreVars, graphVars, extVars>>

\* start_manager, first call: one thread per worker index, started at once
SpawnAll ==
    /\ workers = <<>>
    /\ nthreads + WorkersCount <= MaxThreads
    /\ workers' = [k \in 1..WorkersCount |-> nthreads + k]
    /\ threads' = [t \in Threads |->
                      IF t \in (nthreads + 1)..(nthreads + WorkersCount)
                      THEN NewThread(t - nthreads - 1)
                      ELSE threads[t]]
    /\ nthreads' = nthreads + WorkersCount

\* positions (1-based) of self._workers whose thread has is_alive() false
DeadSlots == {k \in 1..Len(workers) : threads[workers[k]].st # "running"}

Rank(k) == Cardinality({j \in DeadSlots : j <= k})

\* check_workers without the is_alive() test: every slot gets a new thread
check_workers_RestartAll ==
    /\ workers # <<>>
    /\ nthreads + Len(workers) <= MaxThreads
    /\ workers' = [k \in 1..Len(workers) |-> nthreads + k]
    /\ threads' = [t \in Threads |->
                      IF t \in (nthreads + 1)..(nthreads + Len(workers))
                      THEN NewThread(t - nthreads - 1)
                      ELSE threads[t]]
    /\ nthreads' = nthreads + Len(workers)

\* check_workers: enumerate(self._workers), replace the threads not alive
check_workers ==
    /\ nthreads + Cardinality(DeadSlots) <= MaxThreads
    /\ workers' = [k \in 1..Len(workers) |->
                      IF k \in DeadSlots THEN nthreads + Rank(k) ELSE workers[k]]
    /\ threads' = [t \in Threads |->
                      IF \E k \in DeadSlots : t = nthreads + Rank(k)
                      THEN NewThread((CHOOSE k \in DeadSlots : t = nthreads + Rank(k)) - 1)
                      ELSE threads[t]]
    /\ nthreads' = nthreads + Cardinality(DeadSlots)

\* start_manager without the test of self._workers: every call appends its threads
start_manager_Append ==
    /\ nthreads + WorkersCount <= MaxThreads
    /\ workers' = workers \o [k \in 1..WorkersCount |-> nthreads + k]
    /\ threads' = [t \in Threads |->
                      IF t \in (nthreads + 1)..(nthreads + WorkersCount)
                      THEN NewThread(t - nthreads - 1)
                      ELSE threads[t]]
    /\ nthreads' = nthreads + WorkersCount

\* start_manager
start_manager ==
    IF workers # <<>> THEN check_workers ELSE SpawnAll

\* check_workers that creates the workers when there are none yet
CheckWorkers_StartsManager ==
    /\ start_manager
    /\ UNCHANGED <<sigVars, coreVars, graphVars, extVars>>

\* StateServer.check_workers / SignalsManager.check_workers called by the application
CheckWorkers ==
    /\ check_workers
    /\ UNCHANGED <<sigVars, coreVars, graphVars, extVars>>

\* StateServerBase.start
Start ==
    /\ start_manager
    /\ running' = TRUE
    /\ UNCHANGED <<sigVars, emitted, queue, fetched, graphVars, extVars>>

\* StateServerBase.stop: nothing but the core's stop()
Stop ==
    /\ running' = FALSE
    /\ UNCHANGED <<sigVars, poolVars, emitted, queue, fetched, graphVars, extVars>>

\* The worker index the core hands the events of the ids in queue mode to.
QueueWorker == 0

\* The events of `id` that wait in the queue.
Waiting(id) == {k \in 1..Len(queue) : emitted[queue[k]] = id}

\* The queue without the waiting events of `id`.
WithoutWaiting(id) == SelectSeq(queue, LAMBDA e : emitted[e] # id)

\* a core that queues every change, whatever the mode of the id
CoreEmit_NoMerge(id) ==
    /\ running
    /\ Len(emitted) < MaxEvents
    /\ emitted' = Append(emitted, id)
    /\ queue' = Append(queue, Len(emitted) + 1)
    /\ UNCHANGED <<sigVars, poolVars, running, fetched, graphVars, extVars>>

\* core: a remote change or signal of `id` is handed to the dispatch pipeline;
\* in single mode it takes the place of the changes of `id` nobody has taken yet
CoreEmit(id) ==
    /\ running
    /\ Len(emitted) < MaxEvents
    /\ emitted' = Append(emitted, id)
    /\ queue' = IF mode[id] = "single"
                THEN Append(WithoutWaiting(id), Len(emitted) + 1)
                ELSE Append(queue, Len(emitted) + 1)
    /\ UNCHANGED <<sigVars, poolVars, running, fetched, graphVars, extVars>>

\* core: may the worker that passes thread_id `arg` to value_get_signal be given event e
Takable(arg, e) == mode[emitted[e]] = "single" \/ arg = QueueWorker

\* core: the positions of the queue a worker with thread_id `arg` may be served from
TakablePos(arg) == {k \in 1..Len(queue) : Takable(arg, queue[k])}

\* core: the first such position
FirstTakable(arg) == CHOOSE k \in TakablePos(arg) : \A j \in TakablePos(arg) : k <= j

\* the queue without the element at position k
RemoveAt(q, k) == SubSeq(q, 1, k - 1) \o SubSeq(q, k + 1, Len(q))

\* _SignalBase.signal_set_to_queue: self._server.signal_set_to_multi(self._value_id)
signal_set_to_queue(id) ==
    /\ Waiting(id) = {}
    /\ \A t \in Threads : ~(Busy(t) /\ emitted[threads[t].cur] = id)
    /\ mode' = [mode EXCEPT ![id] = "multi"]
    /\ UNCHANGED <<sigVars, poolVars, coreVars, graphVars, package, pysyncVars,
                   walkVars, logVars, lastInv, moreVars>>

\* _SignalBase.signal_set_to_single: self._server.signal_set_to_single(self._value_id)
signal_set_to_single(id) ==
    /\ Waiting(id) = {}
    /\ \A t \in Threads : ~(Busy(t) /\ emitted[threads[t].cur] = id)
    /\ mode' = [mode EXCEPT ![id] = "single"]
    /\ UNCHANGED <<sigVars, poolVars, coreVars, graphVars, package, pysyncVars,
                   walkVars, logVars, lastInv, moreVars>>

\* ------------------------------------------------------ SignalsManager._run
\* a worker that asks for the next event before the current one is finished
RunFetch_Early(t) ==
    /\ threads[t].st = "running"
    /\ TakablePos(threads[t].arg) # {}
    /\ LET k == FirstTakable(threads[t].arg)
       IN /\ queue' = RemoveAt(queue, k)
          /\ fetched' = [fetched EXCEPT ![queue[k]] = @ + 1]
          /\ threads' = [threads EXCEPT ![t] =
                [@ EXCEPT !.cur = queue[k], !.pc = "lookup", !.pos = 0,
                          !.err = NoError, !.inv = <<>>, !.hcall = NoCall,
                          !.modified = FALSE]]
    /\ UNCHANGED <<sigVars, workers, nthreads, running, emitted, graphVars, extVars>>

\* ind, arg = self._server.value_get_signal(thread_id): blocks until an event is there
RunFetch(t) ==
    /\ threads[t].st = "running"
    /\ threads[t].pc = "fetch"
    /\ TakablePos(threads[t].arg) # {}
    /\ LET k == FirstTakable(threads[t].arg)
       IN /\ queue' = RemoveAt(queue, k)
          /\ fetched' = [fetched EXCEPT ![queue[k]] = @ + 1]
          /\ threads' = [threads EXCEPT ![t] =
                [@ EXCEPT !.cur = queue[k], !.pc = "lookup", !.pos = 0,
                          !.err = NoError, !.inv = <<>>, !.hcall = NoCall,
                          !.modified = FALSE]]
    /\ UNCHANGED <<sigVars, workers, nthreads, running, emitted, graphVars, extVars>>

\* a lookup that drops an event without callbacks silently
RunLookup_Silent(t) ==
    /\ threads[t].st = "running"
    /\ threads[t].pc = "lookup"
    /\ LET ind == emitted[threads[t].cur]
           found == IF ind \in cbKeys THEN callbacks[ind] ELSE <<>>
       IN threads' = [threads EXCEPT ![t] =
            IF found # <<>>
            THEN [@ EXCEPT !.pc = "iter"]
            ELSE Idle(@, NoCall)]
    /\ UNCHANGED <<sigVars, workers, nthreads, coreVars, graphVars, extVars>>

\* callbacks = self._callbacks.get(ind, None); if callbacks: ... else: IndexError
RunLookup(t) ==
    /\ threads[t].st = "running"
    /\ threads[t].pc = "lookup"
    /\ LET ind == emitted[threads[t].cur]
           found == IF ind \in cbKeys THEN callbacks[ind] ELSE <<>>
       IN threads' = [threads EXCEPT ![t] =
            IF found # <<>>
            THEN [@ EXCEPT !.pc = "iter"]
            ELSE [@ EXCEPT !.pc = "except", !.err = IndexError(ind)]]
    /\ UNCHANGED <<sigVars, workers, nthreads, coreVars, graphVars, extVars>>

\* ghost: a callback was invoked in this step of thread t, for the event it holds
NoteInvoked(t) ==
    lastInv' = IF Len(threads'[t].inv) > Len(threads[t].inv)
               THEN [lastInv EXCEPT ![emitted[threads[t].cur]] = threads[t].cur]
               ELSE lastInv

\* a for loop that is left after its first callback
RunIter_Break(t) ==
    /\ threads[t].st = "running"
    /\ threads[t].pc = "iter"
    /\ LET live == callbacks[emitted[threads[t].cur]]
           p == threads[t].pos
       IN \/ /\ p < Len(live)
             /\ p = 0
             /\ threads' = [threads EXCEPT ![t] =
                    [@ EXCEPT !.pos = p + 1, !.inv = Append(@, live[p + 1])]]
          \/ /\ p < Len(live)
             /\ p = 0
             /\ threads' = [threads EXCEPT ![t] =
                    [@ EXCEPT !.pos = p + 1, !.inv = Append(@, live[p + 1]),
                              !.pc = "except", !.err = CallbackError(live[p + 1])]]
          \/ /\ (p >= Len(live) \/ p >= 1)
             /\ threads' = [threads EXCEPT ![t] = Idle(@, NoCall)]
    /\ NoteInvoked(t)
    /\ UNCHANGED <<sigVars, workers, nthreads, coreVars, graphVars, extButInv>>

\* for callback in callbacks: the list iterator reads the live list by position
RunIter(t) ==
    /\ threads[t].st = "running"
    /\ threads[t].pc = "iter"
    /\ LET live == callbacks[emitted[threads[t].cur]]
           p == threads[t].pos
       IN \/ /\ p < Len(live)      \* the callback returns
             /\ threads' = [threads EXCEPT ![t] =
                    [@ EXCEPT !.pos = p + 1, !.inv = Append(@, live[p + 1])]]
          \/ /\ p < Len(live)      \* the callback raises an Exception
             /\ threads' = [threads EXCEPT ![t] =
                    [@ EXCEPT !.pos = p + 1, !.inv = Append(@, live[p + 1]),
                              !.pc = "except", !.err = CallbackError(live[p + 1])]]
          \/ /\ p >= Len(live)     \* the iterator is exhausted: next loop round
             /\ threads' = [threads EXCEPT ![t] = Idle(@, NoCall)]
    /\ NoteInvoked(t)
    /\ UNCHANGED <<sigVars, workers, nthreads, coreVars, graphVars, extButInv>>

\* try/except around the whole for loop: a raising callback ends the event
RunExcept_Abandon(t) ==
    /\ threads[t].st = "running"
    /\ threads[t].pc = "except"
    /\ LET e == threads[t].err
           h == error_handler
       IN \/ threads' = [threads EXCEPT ![t] = Idle(@, HandlerCall(h, e))]
          \/ /\ h # "default"
             /\ threads' = [threads EXCEPT ![t] = Dead(@, HandlerCall(h, e))]
    /\ UNCHANGED <<sigVars, workers, nthreads, coreVars, graphVars, extVars>>

\* a raising handler that takes every worker thread down with it
RunExcept_KillsAll(t) ==
    /\ threads[t].st = "running"
    /\ threads[t].pc = "except"
    /\ LET e == threads[t].err
           h == error_handler
       IN \/ /\ e.kind = "callback"
             /\ threads' = [threads EXCEPT ![t] =
                    [@ EXCEPT !.hcall = HandlerCall(h, e),
                              !.err = NoError, !.pc = "iter"]]
          \/ /\ e.kind = "IndexError"
             /\ threads' = [threads EXCEPT ![t] = Idle(@, HandlerCall(h, e))]
          \/ /\ h # "default"
             /\ threads' = [u \in Threads |->
                    IF u = t THEN Dead(threads[u], HandlerCall(h, e))
                    ELSE IF threads[u].st = "running" THEN Dead(threads[u], NoCall)
                    ELSE threads[u]]
    /\ UNCHANGED <<sigVars, workers, nthreads, coreVars, graphVars, extVars>>

\* self._error_handler(e): the handler installed now is called; if it raises, the
\* exception leaves _run and the thread ends
RunExcept(t) ==
    /\ threads[t].st = "running"
    /\ threads[t].pc = "except"
    /\ LET e == threads[t].err
           h == error_handler
       IN \/ /\ e.kind = "callback"     \* the handler returns: on with the for loop
             /\ threads' = [threads EXCEPT ![t] =
                    [@ EXCEPT !.hcall = HandlerCall(h, e),
                              !.err = NoError, !.pc = "iter"]]
          \/ /\ e.kind = "IndexError"   \* the handler returns: next loop round
             /\ threads' = [threads EXCEPT ![t] = Idle(@, HandlerCall(h, e))]
          \/ /\ h # "default"           \* the handler raises: the thread ends
             /\ threads' = [threads EXCEPT ![t] = Dead(@, HandlerCall(h, e))]
    /\ UNCHANGED <<sigVars, workers, nthreads, coreVars, graphVars, extVars>>

\* --------------------------- SignalsManager: calls made by several threads at once
\* The application threads that call into the manager.
Callers == 1..MaxCallers

\* A thread that is in no call.
NotCalling == [pc |-> "idle", op |-> "-", i |-> 0, id |-> 0]

\* where caller c is in its call
At(c, pc) == callers[c].pc = pc

Goto(c, pc) == [callers EXCEPT ![c].pc = pc]

Return(c) == [callers EXCEPT ![c] = NotCalling]

\* StateServerBase.start -> start_manager: `if self._workers:` is read
Race_start(c) ==
    /\ At(c, "idle")
    /\ callers' = [callers EXCEPT ![c] =
            [pc |-> IF workers # <<>> THEN "check" ELSE "spawn", op |-> "start", i |-> 0, id |-> 0]]
    /\ UNCHANGED <<sigVars, poolVars, coreVars, notRace>>

\* start_manager: one round of `for i in range(self._workers_count)`: the thread is
\* created, appended and started; after the last round start() goes on to the core
Race_spawn(c) ==
    /\ At(c, "spawn")
    /\ IF callers[c].i < WorkersCount
       THEN /\ nthreads < MaxThreads
            /\ nthreads' = nthreads + 1
            /\ threads' = [threads EXCEPT ![nthreads + 1] = NewThread(callers[c].i)]
            /\ workers' = Append(workers, nthreads + 1)
            /\ callers' = [callers EXCEPT ![c].i = @ + 1]
       ELSE /\ callers' = Goto(c, "core_start")
            /\ UNCHANGED poolVars
    /\ UNCHANGED <<sigVars, coreVars, notRace>>

\* check_workers called by the application
Race_check_workers(c) ==
    /\ At(c, "idle")
    /\ callers' = [callers EXCEPT ![c] = [pc |-> "check", op |-> "check_workers", i |-> 0, id |-> 0]]
    /\ UNCHANGED <<sigVars, poolVars, coreVars, notRace>>

\* check_workers: the next item of enumerate(self._workers) and `worker.is_alive()`
Race_is_alive(c) ==
    /\ At(c, "check")
    /\ callers' =
          IF callers[c].i < Len(workers)
          THEN IF threads[workers[callers[c].i + 1]].st = "running"
               THEN [callers EXCEPT ![c].i = @ + 1]
               ELSE Goto(c, "replace")
          ELSE IF callers[c].op = "start" THEN Goto(c, "core_start") ELSE Return(c)
    /\ UNCHANGED <<sigVars, poolVars, coreVars, notRace>>

\* check_workers: self._workers[i] = threading.Thread(...); self._workers[i].start()
Race_replace(c) ==
    /\ At(c, "replace")
    /\ nthreads < MaxThreads
    /\ nthreads' = nthreads + 1
    /\ threads' = [threads EXCEPT ![nthreads + 1] = NewThread(callers[c].i)]
    /\ workers' = [workers EXCEPT ![callers[c].i + 1] = nthreads + 1]
    /\ callers' = [callers EXCEPT ![c].i = @ + 1, ![c].pc = "check"]
    /\ UNCHANGED <<sigVars, coreVars, notRace>>

\* StateServerBase.start: self._server.start()
Race_core_start(c) ==
    /\ At(c, "core_start")
    /\ running' = TRUE
    /\ callers' = Return(c)
    /\ UNCHANGED <<sigVars, poolVars, emitted, queue, fetched, notRace>>

\* add_callback: the list is appended to, or made
Race_add_callback(c, id, f) ==
    /\ At(c, "idle")
    /\ Len(callbacks[id]) < MaxCallbacks
    /\ callbacks' = [callbacks EXCEPT ![id] = Append(@, f)]
    /\ cbKeys' = cbKeys \cup {id}
    /\ everNonEmpty' = everNonEmpty \cup {id}
    /\ callers' = [callers EXCEPT ![c] = [pc |-> "send_true", op |-> "add_callback", i |-> 0, id |-> id]]
    /\ UNCHANGED <<error_handler, registered, sentTrue, poolVars, coreVars, notRace>>

\* add_callback: self._server.value_set_register(value_id, True)
Race_send_true(c) ==
    /\ At(c, "send_true")
    /\ registered' = [registered EXCEPT ![callers[c].id] = "True"]
    /\ sentTrue' = sentTrue \cup {callers[c].id}
    /\ callers' = Return(c)
    /\ UNCHANGED <<callbacks, cbKeys, error_handler, everNonEmpty, poolVars, coreVars, notRace>>

\* remove_callback: the two tests and self._callbacks[value_id].remove(callback)
Race_remove_callback(c, id, f) ==
    /\ At(c, "idle")
    /\ IF id \in cbKeys /\ InList(callbacks[id], f)
       THEN /\ callbacks' = [callbacks EXCEPT ![id] = RemoveFirst(@, f)]
            /\ callers' = [callers EXCEPT ![c] =
                    [pc |-> "test_empty", op |-> "remove_callback", i |-> 0, id |-> id]]
       ELSE UNCHANGED <<callbacks, callers>>
    /\ UNCHANGED <<cbKeys, error_handler, registered, sentTrue, everNonEmpty, poolVars,
                   coreVars, notRace>>

\* remove_callback: `if not self._callbacks[value_id]:`
Race_test_empty(c) ==
    /\ At(c, "test_empty")
    /\ callers' = IF callbacks[callers[c].id] = <<>> THEN Goto(c, "send_false") ELSE Return(c)
    /\ UNCHANGED <<sigVars, poolVars, coreVars, notRace>>

\* clear_callbacks: the test and self._callbacks[value_id].clear()
Race_clear_callbacks(c, id) ==
    /\ At(c, "idle")
    /\ IF id \in cbKeys
       THEN /\ callbacks' = [callbacks EXCEPT ![id] = <<>>]
            /\ callers' = [callers EXCEPT ![c] =
                    [pc |-> "send_false", op |-> "clear_callbacks", i |-> 0, id |-> id]]
       ELSE UNCHANGED <<callbacks, callers>>
    /\ UNCHANGED <<cbKeys, error_handler, registered, sentTrue, everNonEmpty, poolVars,
                   coreVars, notRace>>

\* remove_callback / clear_callbacks: self._server.value_set_register(value_id, False)
Race_send_false(c) ==
    /\ At(c, "send_false")
    /\ registered' = [registered EXCEPT ![callers[c].id] = "False"]
    /\ callers' = Return(c)
    /\ UNCHANGED <<callbacks, cbKeys, error_handler, sentTrue, everNonEmpty, poolVars,
                   coreVars, notRace>>

\* ------------------------------------ core: store, dirty flags, flush and resync
\* The values an object can hold; 0 is the initial one.
Vals == 0..MaxVal

\* What update is called with.
Durations == {"None", "dt"}

\* ghost: a message on the wire: a value of the snapshot a new peer gets, or an
\* incremental update
Msg(kind, id, val) == [kind |-> kind, id |-> id, val |-> val]

\* core: the snapshot: the current value of every registered object, in id order
Snapshot == [k \in 1..MaxIds |-> Msg("full", k, store[k])]

\* core: the dirty objects in id order
DirtySeq == SelectSeq([k \in 1..MaxIds |-> k], LAMBDA k : k \in dirty)

\* core: one flush: the current value of every dirty object
Incs == [j \in 1..Len(DirtySeq) |-> Msg("inc", DirtySeq[j], store[DirtySeq[j]])]

\* core: the flush point.  With a peer the dirty objects are sent and are clean
\* after it; what becomes of the flags without a peer is not described, so either.
core_flush ==
    IF peer
    THEN /\ Len(wire) + Len(Incs) <= MaxWire
         /\ wire' = wire \o Incs
         /\ dirty' = {}
    ELSE /\ wire' = wire
         /\ \E d \in {dirty, {}} : dirty' = d

\* a core that arms one more timer for every update(duration)
core_schedule_Each ==
    /\ timers < MaxUpdates
    /\ timers' = timers + 1
    /\ calls' = IF calls < MaxUpdates THEN calls + 1 ELSE calls

\* core: update(duration): a flush is scheduled unless one is scheduled already
core_schedule ==
    /\ timers' = IF timers = 0 THEN 1 ELSE timers
    /\ calls' = IF calls < MaxUpdates THEN calls + 1 ELSE calls

\* StateServerBase.update(duration) / StatesBase.update_ui(dt): self._server.update(duration)
StateServerBase_update(duration) ==
    /\ running
    /\ IF duration = "None"
       THEN /\ core_flush
            /\ UNCHANGED <<timers, calls>>
       ELSE /\ core_schedule
            /\ UNCHANGED <<wire, dirty>>
    /\ UNCHANGED <<peer, store, connects>>
    /\ UNCHANGED notSync

\* core: the scheduled flush runs
core_timer ==
    /\ timers > 0
    /\ core_flush
    /\ timers' = timers - 1
    /\ calls' = 0
    /\ UNCHANGED <<peer, store, connects>>
    /\ UNCHANGED notSync

\* Value.set(value): self._server.value_set(...): stored and marked dirty
Value_set_value(id, v) ==
    /\ store' = [store EXCEPT ![id] = v]
    /\ dirty' = dirty \cup {id}
    /\ UNCHANGED <<peer, wire, timers, connects, calls>>
    /\ UNCHANGED notSync

\* StateServerBase.disconnect_client: self._server.disconnect_client()
disconnect_client ==
    /\ peer' = FALSE
    /\ wire' = <<>>
    /\ UNCHANGED <<store, dirty, timers, connects, calls>>
    /\ UNCHANGED notSync

\* core: the connection to the peer is lost
core_connection_lost ==
    /\ peer
    /\ peer' = FALSE
    /\ wire' = <<>>
    /\ UNCHANGED <<store, dirty, timers, connects, calls>>
    /\ UNCHANGED notSync

\* a core that sends a new peer only what is dirty
core_peer_connect_DirtyOnly ==
    /\ running
    /\ ~peer
    /\ connects < MaxConnects
    /\ peer' = TRUE
    /\ connects' = connects + 1
    /\ wire' = Incs
    /\ dirty' = {}
    /\ UNCHANGED <<store, timers, calls>>
    /\ UNCHANGED notSync

\* core: a peer connects while the server runs: it is sent the full current state
core_peer_connect ==
    /\ running
    /\ ~peer
    /\ connects < MaxConnects
    /\ peer' = TRUE
    /\ connects' = connects + 1
    /\ wire' = Snapshot
    /\ \E d \in {dirty, {}} : dirty' = d
    /\ UNCHANGED <<store, timers, calls>>
    /\ UNCHANGED notSync

\* ------------------------------------- SignalsManager._run: how a callback is called
\* The forms of callable an application connects: a plain function without
\* parameters or with one, a bound method with self alone or with one more
\* parameter, and a callable that is no function (functools.partial, an object
\* with __call__, a builtin).
Forms == {"function0", "function1", "method0", "method1", "object"}

\* The event payloads.
Payloads == {"a1", "a2"}

\* inspect.ismethod(callback)
ismethod(form) == form \in {"method0", "method1"}

\* whether the callable has __code__: functions and bound methods do
has_code(form) == form # "object"

\* callback.__code__.co_argcount: self is counted for a method
co_argcount(form) ==
    CASE form = "function0" -> 0
      [] form = "function1" -> 1
      [] form = "method0" -> 1
      [] form = "method1" -> 2

\* ghost: the callable was called with these arguments
Called(form, args) == [form |-> form, result |-> "called", args |-> args]

\* ghost: the try block raised before any call and the error handler got the exception
NotCalled(form, exc) == [form |-> form, result |-> exc, args |-> <<>>]

\* the body of the try block for one callback
CallByForm(form, arg) ==
    IF ismethod(form) /\ co_argcount(form) = 1 THEN Called(form, <<>>)
    ELSE IF ~has_code(form) THEN NotCalled(form, "AttributeError")
    ELSE IF co_argcount(form) = 0 THEN Called(form, <<>>)
    ELSE Called(form, <<arg>>)

NoDisp == [active |-> FALSE, arg |-> "a1", pos |-> 0, out |-> <<>>]

\* add_callback with a callable of the given form
Forms_connect(form) ==
    /\ ~disp.active
    /\ Len(conn) < MaxForms
    /\ conn' = Append(conn, form)
    /\ disp' = NoDisp
    /\ UNCHANGED notForms

\* _run: value_get_signal returned (ind, arg) and the list of ind is not empty
Forms_event(arg) ==
    /\ ~disp.active
    /\ conn # <<>>
    /\ disp' = [active |-> TRUE, arg |-> arg, pos |-> 0, out |-> <<>>]
    /\ UNCHANGED conn
    /\ UNCHANGED notForms

\* _run: one round of `for callback in callbacks`, or its end
Forms_iter ==
    /\ disp.active
    /\ disp' = IF disp.pos < Len(conn)
               THEN [disp EXCEPT !.pos = @ + 1,
                                 !.out = Append(@, CallByForm(conn[disp.pos + 1], disp.arg))]
               ELSE [disp EXCEPT !.active = FALSE]
    /\ UNCHANGED conn
    /\ UNCHANGED notForms

\* ------------------------------------------------------ Graph, ValueGraphs
Idxs == 0..MaxIdx
Handles == 1..MaxHandles

\* ghost: one call of the core
Call(name, idx) == [call |-> name, idx |-> idx]

\* ghost: what an operation did: the handle it was called on or returned (0: none),
\* the idx, how it ended and the core calls it made, in order
Outcome(op, h, idx, result, sent) ==
    [op |-> op, h |-> h, idx |-> idx, result |-> result, sent |-> sent]

\* Graph._check passes
check(h) == ~handles[h].deleted

\* The Graph objects that exist.
Created == 1..nhandles

\* A Graph method that starts with self._check() and then makes one core call.
CheckedOp(op, name, h) ==
    /\ h \in Created
    /\ gres' = IF check(h)
               THEN Outcome(op, h, handles[h].idx, "core", <<Call(name, handles[h].idx)>>)
               ELSE Outcome(op, h, handles[h].idx, "RuntimeError", <<>>)
    /\ UNCHANGED <<graphs, handles, nhandles, removedBy, sinceClear>>
    /\ UNCHANGED <<sigVars, poolVars, coreVars, extVars>>

\* A Graph method that makes its core call without self._check().
UncheckedOp(op, name, h) ==
    /\ h \in Created
    /\ gres' = Outcome(op, h, handles[h].idx, "core", <<Call(name, handles[h].idx)>>)
    /\ UNCHANGED <<graphs, handles, nhandles, removedBy, sinceClear>>
    /\ UNCHANGED <<sigVars, poolVars, coreVars, extVars>>

\* Graph.len
Graph_len(h) == CheckedOp("len", "graphs_len", h)

\* Graph.add_points
Graph_add_points(h) == CheckedOp("add_points", "graphs_add_points", h)

\* Graph.set
Graph_set(h) == CheckedOp("set", "graphs_set", h)

\* Graph.get
Graph_get(h) == UncheckedOp("get", "graphs_get", h)

\* Graph.is_linear
Graph_is_linear(h) == UncheckedOp("is_linear", "graphs_is_linear", h)

\* ValueGraphs.get(idx): self._graphs[idx]
ValueGraphs_get(idx) ==
    /\ gres' = IF graphs[idx] # 0
               THEN Outcome("graphs.get", graphs[idx], idx, "ok", <<>>)
               ELSE Outcome("graphs.get", 0, idx, "KeyError", <<>>)
    /\ UNCHANGED <<graphs, handles, nhandles, removedBy, sinceClear>>
    /\ UNCHANGED <<sigVars, poolVars, coreVars, extVars>>

\* while idx in self._graphs: idx += 1
RECURSIVE WhileIdxInGraphs(_)
WhileIdxInGraphs(idx) ==
    IF idx \in Idxs /\ graphs[idx] # 0 THEN WhileIdxInGraphs(idx + 1) ELSE idx

\* idx = len(self._graphs) instead of the loop
FirstFree_Len == Cardinality({i \in Idxs : graphs[i] # 0})

\* idx = 0; while idx in self._graphs: idx += 1
FirstFree == WhileIdxInGraphs(0)

\* ValueGraphs.set, the part after idx is settled: core call, new Graph, store it
StoreNew(idx) ==
    /\ nhandles < MaxHandles
    /\ nhandles' = nhandles + 1
    /\ handles' = [handles EXCEPT ![nhandles + 1] = [idx |-> idx, deleted |-> FALSE]]
    /\ graphs' = [graphs EXCEPT ![idx] = nhandles + 1]
    /\ sinceClear' = FALSE
    /\ gres' = Outcome("graphs.set", nhandles + 1, idx, "ok", <<Call("graphs_set", idx)>>)
    /\ UNCHANGED removedBy

\* ValueGraphs.set that never looks at what is stored: always a new handle
ValueGraphs_set_Replace(idx) ==
    /\ IF idx = -1
       THEN /\ \E i \in Idxs : graphs[i] = 0
            /\ StoreNew(FirstFree)
       ELSE StoreNew(idx)
    /\ UNCHANGED <<sigVars, poolVars, coreVars, extVars>>

\* ValueGraphs.set(graph, idx): idx = -1 stands for None
ValueGraphs_set(idx) ==
    /\ IF idx = -1
       THEN /\ \E i \in Idxs : graphs[i] = 0
            /\ StoreNew(FirstFree)
       ELSE IF graphs[idx] # 0
       THEN /\ gres' = IF check(graphs[idx])
                       THEN Outcome("graphs.set", graphs[idx], idx, "ok",
                                    <<Call("graphs_set", idx)>>)
                       ELSE Outcome("graphs.set", 0, idx, "RuntimeError", <<>>)
            /\ sinceClear' = (sinceClear /\ ~check(graphs[idx]))
            /\ UNCHANGED <<graphs, handles, nhandles, removedBy>>
       ELSE StoreNew(idx)
    /\ UNCHANGED <<sigVars, poolVars, coreVars, extVars>>

\* Graph._kill: the flag and one graphs_remove
kill(h) == [handles EXCEPT ![h].deleted = TRUE]

\* ValueGraphs.remove without graph._kill()
ValueGraphs_remove_NoKill(h) ==
    /\ h \in Created
    /\ LET idx == handles[h].idx
           stored == graphs[idx]
       IN IF stored # 0
          THEN /\ graphs' = [graphs EXCEPT ![idx] = 0]
               /\ removedBy' = [removedBy EXCEPT ![stored] =
                                    IF stored = h THEN "remove" ELSE "remove_other"]
               /\ gres' = Outcome("graphs.remove", h, idx, "ok",
                                  <<Call("graphs_remove", idx)>>)
               /\ UNCHANGED handles
          ELSE /\ gres' = Outcome("graphs.remove", h, idx, "ok", <<>>)
               /\ UNCHANGED <<graphs, handles, removedBy>>
    /\ UNCHANGED <<nhandles, sinceClear>>
    /\ UNCHANGED <<sigVars, poolVars, coreVars, extVars>>

\* ValueGraphs.remove(graph)
ValueGraphs_remove(h) ==
    /\ h \in Created
    /\ LET idx == handles[h].idx
           stored == graphs[idx]
       IN IF stored # 0
          THEN /\ handles' = kill(h)
               /\ graphs' = [graphs EXCEPT ![idx] = 0]
               /\ removedBy' = [removedBy EXCEPT ![stored] =
                                    IF stored = h THEN "remove" ELSE "remove_other"]
               /\ gres' = Outcome("graphs.remove", h, idx, "ok",
                                  <<Call("graphs_remove", idx), Call("graphs_remove", idx)>>)
          ELSE /\ gres' = Outcome("graphs.remove", h, idx, "ok", <<>>)
               /\ UNCHANGED <<graphs, handles, removedBy>>
    /\ UNCHANGED <<nhandles, sinceClear>>
    /\ UNCHANGED <<sigVars, poolVars, coreVars, extVars>>

\* ValueGraphs.remove_idx(idx)
ValueGraphs_remove_idx(idx) ==
    /\ LET stored == graphs[idx]
       IN IF stored # 0
          THEN /\ handles' = kill(stored)
               /\ graphs' = [graphs EXCEPT ![idx] = 0]
               /\ removedBy' = [removedBy EXCEPT ![stored] = "remove_idx"]
               /\ gres' = Outcome("graphs.remove_idx", stored, idx, "ok",
                                  <<Call("graphs_remove", idx), Call("graphs_remove", idx)>>)
          ELSE /\ gres' = Outcome("graphs.remove_idx", 0, idx, "ok", <<>>)
               /\ UNCHANGED <<graphs, handles, removedBy>>
    /\ UNCHANGED <<nhandles, sinceClear>>
    /\ UNCHANGED <<sigVars, poolVars, coreVars, extVars>>

\* ValueGraphs.clear: the dict is emptied, the Graph objects are not told
ValueGraphs_clear ==
    /\ graphs' = [i \in Idxs |-> 0]
    /\ removedBy' = [h \in Handles |->
                        IF \E i \in Idxs : graphs[i] = h THEN "clear" ELSE removedBy[h]]
    /\ sinceClear' = TRUE
    /\ gres' = Outcome("graphs.clear", 0, 0, "ok", <<Call("graphs_reset", 0)>>)
    /\ UNCHANGED <<handles, nhandles>>
    /\ UNCHANGED <<sigVars, poolVars, coreVars, extVars>>

\* ------------------------------------------- egui_pysync: ValueGraphs
Packages == {"egui_states", "egui_pysync"}

\* _GraphBase.len
pysync_Graph_len(h) == CheckedOp("len", "graphs_len", h)

\* Graph.add_points / GraphRange.add_points
pysync_Graph_add_points(h) == CheckedOp("add_points", "graphs_add_points", h)

\* Graph.set / GraphRange.set
pysync_Graph_set(h) == CheckedOp("set", "graphs_set", h)

\* Graph.get / GraphRange.get: no self._check()
pysync_Graph_get(h) == UncheckedOp("get", "graphs_get", h)

\* ValueGraphs.get(idx): self._graphs[idx]
pysync_ValueGraphs_get(idx) == ValueGraphs_get(idx)

\* idx = 0; while idx in self._graphs: idx += 1
pysync_FirstFree == WhileIdxInGraphs(0)

\* ValueGraphs.set(graph, idx, range): idx = -1 stands for None.  A graph stored
\* under idx is killed, then a new Graph / GraphRange is made and stored.
pysync_ValueGraphs_set(idx) ==
    /\ IF idx = -1
       THEN /\ \E i \in Idxs : graphs[i] = 0
            /\ StoreNew(pysync_FirstFree)
       ELSE IF graphs[idx] # 0
       THEN /\ nhandles < MaxHandles
            /\ nhandles' = nhandles + 1
            /\ handles' = [kill(graphs[idx]) EXCEPT
                              ![nhandles + 1] = [idx |-> idx, deleted |-> FALSE]]
            /\ graphs' = [graphs EXCEPT ![idx] = nhandles + 1]
            /\ removedBy' = [removedBy EXCEPT ![graphs[idx]] = "set"]
            /\ sinceClear' = FALSE
            /\ gres' = Outcome("graphs.set", nhandles + 1, idx, "ok",
                               <<Call("graphs_remove", idx), Call("graphs_set", idx)>>)
       ELSE StoreNew(idx)
    /\ UNCHANGED <<sigVars, poolVars, coreVars, extVars>>

\* ValueGraphs.remove(graph): graph._kill() first, whatever is stored
pysync_ValueGraphs_remove(h) ==
    /\ h \in Created
    /\ LET idx == handles[h].idx
           stored == graphs[idx]
       IN /\ handles' = kill(h)
          /\ IF stored # 0
             THEN /\ graphs' = [graphs EXCEPT ![idx] = 0]
                  /\ removedBy' = [removedBy EXCEPT ![stored] =
                                       IF stored = h THEN "remove" ELSE "remove_other"]
                  /\ gres' = Outcome("graphs.remove", h, idx, "ok",
                                     <<Call("graphs_remove", idx), Call("graphs_remove", idx),
                                       Call("graphs_remove", idx)>>)
             ELSE /\ gres' = Outcome("graphs.remove", h, idx, "ok",
                                     <<Call("graphs_remove", idx)>>)
                  /\ UNCHANGED <<graphs, removedBy>>
    /\ UNCHANGED <<nhandles, sinceClear>>
    /\ UNCHANGED <<sigVars, poolVars, coreVars, extVars>>

\* ValueGraphs.remove_idx(idx)
pysync_ValueGraphs_remove_idx(idx) == ValueGraphs_remove_idx(idx)

\* ValueGraphs.clear: the dict is emptied, graphs_clear is sent
pysync_ValueGraphs_clear ==
    /\ graphs' = [i \in Idxs |-> 0]
    /\ removedBy' = [h \in Handles |->
                        IF \E i \in Idxs : graphs[i] = h THEN "clear" ELSE removedBy[h]]
    /\ sinceClear' = TRUE
    /\ gres' = Outcome("graphs.clear", 0, 0, "ok", <<Call("graphs_clear", 0)>>)
    /\ UNCHANGED <<handles, nhandles>>
    /\ UNCHANGED <<sigVars, poolVars, coreVars, extVars>>

\* ------------------------------- egui_pysync: _Counter, _SignalsManager
\* _Counter.__init__: self._counter = 9
Counter_init == 9

\* The classes of state objects an application declares.
Kinds == {"Value", "ValueStatic"}
\* The ones derived from _ValueBase: they have connect / disconnect.
ValueBaseKinds == {"Value"}

\* the ids a _Counter can hand out here, and the error signal's 0
PsIds == {0} \cup (0..(Counter_init + MaxObjects + 1))

\* ghost: a call on the manager
PsCall(op, id, f, result, inv) ==
    [op |-> op, id |-> id, f |-> f, result |-> result, inv |-> inv]

\* get_id that returns the counter before the increment
Counter_get_id_PostIncrement(ret) ==
    /\ counter' = counter + 1
    /\ ret = counter

\* _Counter.get_id: self._counter += 1; return self._counter
Counter_get_id(ret) ==
    /\ counter' = counter + 1
    /\ ret = counter'

\* _StaticBase.__init__(counter), run by the constructor of a state object
StaticBase_init(kind) ==
    /\ phase = "construct"
    /\ Len(objects) < MaxObjects
    /\ \E ret \in PsIds :
          /\ Counter_get_id(ret)
          /\ objects' = Append(objects, [kind |-> kind, id |-> ret])
    /\ UNCHANGED <<phase, ps_callbacks, ps_keys, ps_sent, ps_gone, ps_res>>
    /\ UNCHANGED notPysync

\* the ids of the objects _initialize_states passes to register_value
ValueBaseIds == {objects[k].id : k \in {j \in 1..Len(objects) : objects[j].kind \in ValueBaseKinds}}

\* StateServer.__init__ after the states object is built: _initialize_states
\* (register_value for every _ValueBase), ErrorSignal (register_value(0)),
\* close_registration
StateServer_init ==
    /\ phase = "construct"
    /\ phase' = "open"
    /\ ps_keys' = ValueBaseIds \cup {0}
    /\ ps_callbacks' = [id \in PsIds |-> <<>>]
    /\ UNCHANGED <<counter, objects, ps_sent, ps_gone, ps_res>>
    /\ UNCHANGED notPysync

\* `callback in self._callbacks[value_id]`: the entry is the tuple (list, arg_parser),
\* so the test compares the callback with the list object and with the parser and
\* never looks into the list.  A callable is no list and the callbacks connected
\* here are not the parser.
CallbackInEntry(id, f) == f = "arg_parser"

\* add_callback that makes the entry when the id has none, as egui_states does
pysync_add_callback_Create(id, f) ==
    /\ phase = "open"
    /\ Len(ps_callbacks[id]) < MaxCallbacks
    /\ ps_callbacks' = [ps_callbacks EXCEPT ![id] = Append(@, f)]
    /\ ps_keys' = ps_keys \cup {id}
    /\ ps_sent' = [ps_sent EXCEPT ![id] = "True"]
    /\ ps_gone' = ps_gone \ {<<id, f>>}
    /\ UNCHANGED <<counter, objects, phase, ps_res>>
    /\ UNCHANGED notPysync

\* _SignalsManager.add_callback
pysync_add_callback(id, f) ==
    /\ phase = "open"
    /\ IF id \in ps_keys
       THEN /\ Len(ps_callbacks[id]) < MaxCallbacks
            /\ ps_callbacks' = [ps_callbacks EXCEPT ![id] = Append(@, f)]
            /\ ps_sent' = [ps_sent EXCEPT ![id] = "True"]
            /\ ps_gone' = ps_gone \ {<<id, f>>}
            /\ UNCHANGED ps_res
       ELSE /\ ps_res' = PsCall("add_callback", id, f, "RuntimeError", <<>>)
            /\ UNCHANGED <<ps_callbacks, ps_sent, ps_gone>>
    /\ UNCHANGED <<counter, objects, phase, ps_keys>>
    /\ UNCHANGED notPysync

\* _SignalsManager.remove_callback: the list is touched only if the callback is
\* found in the entry tuple; `not self._callbacks[value_id]` tests that 2-tuple
\* too, which is never empty, so value_set_register(value_id, False) is not sent
pysync_remove_callback(id, f) ==
    /\ phase = "open"
    /\ IF id \in ps_keys
       THEN /\ IF CallbackInEntry(id, f)
               THEN ps_callbacks' = [ps_callbacks EXCEPT ![id] = RemoveFirst(@, f)]
               ELSE UNCHANGED ps_callbacks
            /\ ps_gone' = IF Count(ps_callbacks[id], f) = 1
                          THEN ps_gone \cup {<<id, f>>} ELSE ps_gone
            /\ UNCHANGED ps_res
            /\ UNCHANGED ps_sent
       ELSE /\ ps_res' = PsCall("remove_callback", id, f, "RuntimeError", <<>>)
            /\ UNCHANGED <<ps_callbacks, ps_sent, ps_gone>>
    /\ UNCHANGED <<counter, objects, phase, ps_keys>>
    /\ UNCHANGED notPysync

\* _SignalsManager.clear_callbacks
pysync_clear_callbacks(id) ==
    /\ phase = "open"
    /\ IF id \in ps_keys
       THEN /\ ps_callbacks' = [ps_callbacks EXCEPT ![id] = <<>>]
            /\ ps_sent' = [ps_sent EXCEPT ![id] = "False"]
       ELSE UNCHANGED <<ps_callbacks, ps_sent>>
    /\ UNCHANGED <<counter, objects, phase, ps_keys, ps_gone, ps_res>>
    /\ UNCHANGED notPysync

\* _SignalsManager._run, one event of `ind` from value_get_signal to the end of
\* the for loop, with callbacks that return: every entry of the list is called
pysync_run(ind) ==
    /\ phase = "open"
    /\ ps_res' = IF ind \in ps_keys /\ ps_callbacks[ind] # <<>>
                 THEN PsCall("_run", ind, "-", "ok", ps_callbacks[ind])
                 ELSE PsCall("_run", ind, "-", "IndexError", <<>>)
    /\ UNCHANGED <<counter, objects, phase, ps_callbacks, ps_keys, ps_sent, ps_gone>>
    /\ UNCHANGED notPysync

\* --------------------------------------- StateServerBase.__init__, _initialize
\* What an attribute of a states object can be: a state object (_SignalBase or
\* plain _StaticBase), a nested ISubStates, or anything else (as StatesBase._server).
NodeKinds == {"Value", "ValueGraphs", "sub", "other"}
StaticBaseKinds == {"Value", "ValueGraphs"}
Nodes == 1..MaxNodes

\* A states object: attribute k belongs to the object parent[k] (0: the root states
\* object); the attributes of one object are in obj.__dict__ in the order of
\* their numbers.
Trees ==
    {t \in [parent : [Nodes -> 0..(MaxNodes - 1)], kind : [Nodes -> NodeKinds]] :
        \A k \in Nodes :
            /\ t.parent[k] < k
            /\ t.parent[k] # 0 => t.kind[t.parent[k]] = "sub"}

\* obj.__dict__.items() of object p, in order
RECURSIVE Items(_, _, _)
Items(t, p, k) ==
    IF k > MaxNodes THEN <<>>
    ELSE IF t.parent[k] = p THEN <<k>> \o Items(t, p, k + 1)
    ELSE Items(t, p, k + 1)

\* the core method an object's _initialize calls
AddCall(kind) == IF kind = "Value" THEN "add_value" ELSE "add_graphs"

\* one frame of _initialize(obj, parent, ...): the object, its items, the position
\* of the for loop and the name given as `parent`
Frame(obj, name) == [obj |-> obj, items |-> Items(tree, obj, 1), i |-> 1, name |-> name]

Top == stack[Len(stack)]
\* the attribute the for loop of the top frame is at
Cur == Top.items[Top.i]
InLoop == stack # <<>> /\ Top.i <= Len(Top.items)
Advance == [stack EXCEPT ![Len(stack)].i = @ + 1]

constructed == finalized >= 1 /\ logging

\* isinstance(o, _StaticBase): _initialize_base, _initialize_signal, o._initialize(full_name, types)
Walk_StaticBase ==
    /\ InLoop
    /\ tree.kind[Cur] \in StaticBaseKinds
    /\ regs' = Append(regs, [node |-> Cur, name |-> Append(Top.name, Cur),
                             call |-> AddCall(tree.kind[Cur])])
    /\ stack' = Advance
    /\ UNCHANGED <<tree, finalized, logging, lastOp>>
    /\ UNCHANGED <<sigVars, mode, notWalk>>

\* a walk that puts a nested ISubStates aside until the current object is done
Walk_SubStates_Later ==
    /\ InLoop
    /\ tree.kind[Cur] = "sub"
    /\ stack' = <<Frame(Cur, Append(Top.name, Cur))>> \o Advance
    /\ UNCHANGED <<tree, regs, finalized, logging, lastOp>>
    /\ UNCHANGED <<sigVars, mode, notWalk>>

\* isinstance(o, ISubStates): _initialize(o, full_name, ...) is entered
Walk_SubStates ==
    /\ InLoop
    /\ tree.kind[Cur] = "sub"
    /\ stack' = Append(Advance, Frame(Cur, Append(Top.name, Cur)))
    /\ UNCHANGED <<tree, regs, finalized, logging, lastOp>>
    /\ UNCHANGED <<sigVars, mode, notWalk>>

\* neither branch: the attribute is passed over
Walk_Other ==
    /\ InLoop
    /\ tree.kind[Cur] = "other"
    /\ stack' = Advance
    /\ UNCHANGED <<tree, regs, finalized, logging, lastOp>>
    /\ UNCHANGED <<sigVars, mode, notWalk>>

\* the for loop of a nested call is over: back in the caller's loop
Walk_Return ==
    /\ Len(stack) > 1
    /\ ~InLoop
    /\ stack' = SubSeq(stack, 1, Len(stack) - 1)
    /\ UNCHANGED <<tree, regs, finalized, logging, lastOp>>
    /\ UNCHANGED <<sigVars, mode, notWalk>>

\* finalize() called while _initialize is still walking
Finalize_Early ==
    /\ stack # <<>>
    /\ finalized = 0
    /\ finalized' = finalized + 1
    /\ UNCHANGED <<tree, stack, regs, logging, lastOp>>
    /\ UNCHANGED <<sigVars, mode, notWalk>>

\* _initialize(self._states, "root", ...) has returned: self._server.finalize()
Finalize ==
    /\ Len(stack) = 1
    /\ ~InLoop
    /\ stack' = <<>>
    /\ finalized' = finalized + 1
    /\ UNCHANGED <<tree, regs, logging, lastOp>>
    /\ UNCHANGED <<sigVars, mode, notWalk>>

\* core: the id signal_get_logging_id() reports
LoggingId == MaxIds

\* self.logging = LoggingSignal(...): add_callback(logging_id, self._callback),
\* then signal_set_to_multi(logging_id); the constructor is over
LoggingSignal_init ==
    /\ stack = <<>>
    /\ finalized >= 1
    /\ ~logging
    /\ logging' = TRUE
    /\ callbacks' = [callbacks EXCEPT ![LoggingId] = Append(@, "_callback")]
    /\ cbKeys' = cbKeys \cup {LoggingId}
    /\ registered' = [registered EXCEPT ![LoggingId] = "True"]
    /\ sentTrue' = sentTrue \cup {LoggingId}
    /\ everNonEmpty' = everNonEmpty \cup {LoggingId}
    /\ lastOp' = "signal_set_to_multi"
    /\ mode' = [mode EXCEPT ![LoggingId] = "multi"]
    /\ UNCHANGED <<tree, stack, regs, finalized, error_handler>>
    /\ UNCHANGED notWalk

\* the kinds of state object the states object declares
Declared == {tree.kind[k] : k \in Nodes}

\* StateServerBase.update / StatesBase.update_ui
Server_update ==
    /\ constructed
    /\ lastOp' = "update"
    /\ UNCHANGED <<tree, stack, regs, finalized, logging>>
    /\ UNCHANGED <<sigVars, mode, notWalk>>

\* Value.set
Value_set ==
    /\ constructed
    /\ "Value" \in Declared
    /\ lastOp' = "value_set"
    /\ UNCHANGED <<tree, stack, regs, finalized, logging>>
    /\ UNCHANGED <<sigVars, mode, notWalk>>

\* ------------------------------------------------------- LoggingSignal
\* LogLevel: Debug = 0, Info = 1, Warning = 2, Error = 3
Levels == 0..3
\* the level byte of a message as it arrives
MsgLevels == 0..MaxLevel
Msgs == {"m1", "m2"}

\* no _callback call in progress
NoFan == [active |-> FALSE, level |-> 0, msg |-> "-", pos |-> 0, inv |-> <<>>,
          start |-> <<>>, removed |-> {}, raised |-> FALSE]

\* ghost: the call is over
Ended(f) == [level |-> f.level, msg |-> f.msg, inv |-> f.inv, start |-> f.start,
             removed |-> f.removed, raised |-> f.raised, ended |-> TRUE]

\* ghost: the loggers of level `l` that are taken from the list while a
\* _callback call is going through it
NoteRemoved(l, fs) ==
    IF fan.active /\ fan.level = l
    THEN [fan EXCEPT !.removed = @ \cup fs]
    ELSE fan

NumLoggers == Len(loggers[0]) + Len(loggers[1]) + Len(loggers[2]) + Len(loggers[3])

\* LoggingSignal.add_logger
add_logger(level, f) ==
    /\ NumLoggers < MaxLoggers
    /\ loggers' = [loggers EXCEPT ![level] = Append(@, f)]
    /\ UNCHANGED <<fan, logres>>
    /\ UNCHANGED notLog

\* LoggingSignal.remove_logger
remove_logger(level, f) ==
    /\ IF InList(loggers[level], f)
       THEN /\ loggers' = [loggers EXCEPT ![level] = RemoveFirst(@, f)]
            /\ fan' = NoteRemoved(level, {f})
       ELSE UNCHANGED <<loggers, fan>>
    /\ UNCHANGED logres
    /\ UNCHANGED notLog

\* LoggingSignal.remove_all_loggers
remove_all_loggers(level) ==
    /\ loggers' = [loggers EXCEPT ![level] = <<>>]
    /\ fan' = NoteRemoved(level, {loggers[level][k] : k \in 1..Len(loggers[level])})
    /\ UNCHANGED logres
    /\ UNCHANGED notLog

\* the worker of the logging channel calls LoggingSignal._callback(message).  The
\* channel is in queue mode: its events are handled by one worker, one at a time.
LoggingSignal_callback_call(level, msg) ==
    /\ ~fan.active
    /\ fan' = [NoFan EXCEPT !.active = TRUE, !.level = level, !.msg = msg,
                            !.start = IF level \in Levels THEN loggers[level] ELSE <<>>]
    /\ logres' = [Ended(NoFan) EXCEPT !.ended = FALSE]
    /\ UNCHANGED loggers
    /\ UNCHANGED notLog

\* LoggingSignal._callback: the if / elif chain on the level, then
\* `for logger in self._loggers[level]: logger(message[1])` on the live list
LoggingSignal_callback ==
    /\ fan.active
    /\ \/ /\ fan.level \in Levels            \* the logger returns
          /\ fan.pos < Len(loggers[fan.level])
          /\ fan' = [fan EXCEPT !.pos = @ + 1,
                                !.inv = Append(@, <<loggers[fan.level][fan.pos + 1], fan.msg>>)]
          /\ UNCHANGED logres
       \/ /\ fan.level \in Levels            \* the logger raises: _callback is left
          /\ fan.pos < Len(loggers[fan.level])
          /\ logres' = Ended([fan EXCEPT
                                !.inv = Append(@, <<loggers[fan.level][fan.pos + 1], fan.msg>>),
                                !.raised = TRUE])
          /\ fan' = NoFan
       \/ /\ IF fan.level \in Levels THEN fan.pos >= Len(loggers[fan.level]) ELSE TRUE
          /\ logres' = Ended(fan)            \* no branch, or the list is exhausted
          /\ fan' = NoFan
    /\ UNCHANGED loggers
    /\ UNCHANGED notLog

\* ---------------------------------------------------------------- binding generator
\* egui_pysync/__main__.py: the ids written into the generated states.py.
\* The struct types of states.rs; a struct holds by value only types declared below it.
StructNames == {"States", "Outer", "Inner"}
Inside(s) ==
    CASE s = "States" -> {"Outer", "Inner"}
      [] s = "Outer" -> {"Inner"}
      [] OTHER -> {}
\* a field of a state type (Arc<Value<..>>, Arc<Signal<..>>, ...), as opposed to a sub-struct
Item == "item"
\* the "*" that _parse_item leaves where the id is to be written
Star == 0
\* id_counter = 10: the first ten ids are reserved
FirstId == 10

\* _Struct._order of a struct of type s: its fields in the order of its constructor,
\* each an item or (through _structs_names) the type of a sub-struct
Orders(s) == UNION {[1..n -> {Item} \cup Inside(s)] : n \in 0..MaxFields}
\* the contents of states.rs
StatesFiles ==
    {d \in [StructNames -> UNION {Orders(s) : s \in StructNames}] :
        \A s \in StructNames : d[s] \in Orders(s)}

\* the innermost set_id call and the field its for loop is at
TopFrame == frames[Len(frames)]
AtField == TopFrame.pos < Len(structs[TopFrame.struct])
Field == structs[TopFrame.struct][TopFrame.pos + 1]
NextField(fs) == [fs EXCEPT ![Len(fs)].pos = @ + 1]

\* _write_states up to the call structs["States"].set_id(id_counter, structs):
\* one _Struct per struct of the file, every item text with its "*"
write_states(d) ==
    /\ id_counter = 0
    /\ structs' = d
    /\ items' = [s \in StructNames |-> [p \in 1..MaxFields |-> Star]]
    /\ id_counter' = FirstId
    /\ frames' = <<[struct |-> "States", pos |-> 0]>>
    /\ UNCHANGED notGen

\* set_id, else branch: self._items[item].replace("*", str(id_counter)); id_counter += 1.
\* replace leaves a text that holds no "*" any more as it is.
set_id_item ==
    /\ frames # <<>>
    /\ AtField
    /\ Field = Item
    /\ items' = [items EXCEPT ![TopFrame.struct][TopFrame.pos + 1] = IF @ = Star THEN id_counter ELSE @]
    /\ id_counter' = id_counter + 1
    /\ frames' = NextField(frames)
    /\ UNCHANGED structs
    /\ UNCHANGED notGen

\* set_id, if branch: the call structs[self._structs_names[item]].set_id(id_counter, structs),
\* on the one _Struct object of that type
set_id_struct ==
    /\ frames # <<>>
    /\ AtField
    /\ Field \in StructNames
    /\ frames' = Append(frames, [struct |-> Field, pos |-> 0])
    /\ UNCHANGED <<structs, items, id_counter>>
    /\ UNCHANGED notGen

\* set_id: return id_counter, which the caller assigns to its own id_counter
set_id_return ==
    /\ frames # <<>>
    /\ ~AtField
    /\ frames' = IF Len(frames) = 1 THEN <<>> ELSE NextField(SubSeq(frames, 1, Len(frames) - 1))
    /\ UNCHANGED <<structs, items, id_counter>>
    /\ UNCHANGED notGen

\* the generator has not run
InitGen ==
    /\ structs = [s \in StructNames |-> <<>>]
    /\ items = [s \in StructNames |-> [p \in 1..MaxFields |-> Star]]
    /\ id_counter = 0
    /\ frames = <<>>

\* ---------------------------------------------------------------- FastEnum
\* egui_states/structures.py, egui_states/custom_types.py and (with from_index named
\* by_index) egui_states_old/enums.py: the same class three times.
EnumValues == 0..MaxEnumValue
\* the bodies of a subclass: name k is the k-th name declared, body[k] its value
Bodies == UNION {[1..n -> EnumValues] : n \in 1..MaxMembers}
\* Enum: a name whose value equals that of an earlier name is an alias of that member
MemberOf(b, k) == CHOOSE q \in 1..k : b[q] = b[k] /\ \A r \in 1..(q - 1) : b[r] # b[k]
Members(b) == {MemberOf(b, k) : k \in 1..Len(b)}

\* tuple(cls): Enum.__iter__ gives the members, without aliases, in definition order
RECURSIVE tuple_cls(_, _)
tuple_cls(b, k) ==
    IF k > Len(b) THEN <<>>
    ELSE (IF MemberOf(b, k) = k THEN <<k>> ELSE <<>>) \o tuple_cls(b, k + 1)

\* what a call gave: a value, or the exception it raised
EnumCall(op, arg, out, raised) == [op |-> op, arg |-> arg, out |-> out, raised |-> raised]
NoEnumCall == EnumCall("none", 0, 0, "none")

\* tuple.index(x): the position, counted from 0, of the first element equal to x
TupleIndex(t, x) ==
    IF \E k \in 1..Len(t) : t[k] = x
    THEN EnumCall("index", x, (CHOOSE k \in 1..Len(t) : t[k] = x /\ \A r \in 1..(k - 1) : t[r] # x) - 1,
                  "none")
    ELSE EnumCall("index", x, 0, "ValueError")

\* index: self._member_list.index(self)
index_Value(m) == EnumCall("index", m, body[m], "none")

index(m) == TupleIndex(member_list, m)

\* from_index: cls._member_list[index]; a negative index counts from the end
from_index(i) ==
    LET n == Len(member_list)
    IN  IF i >= 0 /\ i < n THEN EnumCall("from_index", i, member_list[i + 1], "none")
        ELSE IF i < 0 /\ i >= 0 - n THEN EnumCall("from_index", i, member_list[n + i + 1], "none")
        ELSE EnumCall("from_index", i, 0, "IndexError")

\* class X(FastEnum) with body b: __init_subclass__ runs when the members exist
init_subclass(b) ==
    /\ body = <<>>
    /\ body' = b
    /\ member_list' = tuple_cls(b, 1)
    /\ UNCHANGED enumres
    /\ UNCHANGED notEnum

\* X.<name k>.index()
Call_index(k) ==
    /\ k \in 1..Len(body)
    /\ enumres' = index(MemberOf(body, k))
    /\ UNCHANGED <<body, member_list>>
    /\ UNCHANGED notEnum

\* X.from_index(i)
Call_from_index(i) ==
    /\ body # <<>>
    /\ enumres' = from_index(i)
    /\ UNCHANGED <<body, member_list>>
    /\ UNCHANGED notEnum

\* no subclass of FastEnum defined yet
InitEnum ==
    /\ body = <<>>
    /\ member_list = <<>>
    /\ enumres = NoEnumCall

\* ---------------------------------------------------------------- states
\* nothing connected to the id whose callables are told apart by form
InitForms ==
    /\ conn = <<>>
    /\ disp = NoDisp

\* no application thread is inside a call
InitRace == callers = [c \in Callers |-> NotCalling]

\* core: no peer, every object at its initial value and clean
InitSync ==
    /\ peer = FALSE
    /\ store = [k \in 1..MaxIds |-> 0]
    /\ dirty = {}
    /\ wire = <<>>
    /\ timers = 0
    /\ connects = 0
    /\ calls = 0

InitMore == InitForms /\ InitRace /\ InitSync /\ InitGen /\ InitEnum

InitSignals ==
    /\ callbacks = [id \in Ids |-> <<>>]
    /\ cbKeys = {}
    /\ error_handler \in Handlers
    /\ registered = [id \in Ids |-> "none"]
    /\ sentTrue = {}
    /\ everNonEmpty = {}

InitPool ==
    /\ workers = <<>>
    /\ threads = [t \in Threads |-> Unborn]
    /\ nthreads = 0

InitCore ==
    /\ running = FALSE
    /\ emitted = <<>>
    /\ queue = <<>>
    /\ fetched = [e \in 1..MaxEvents |-> 0]

InitGraphs ==
    /\ graphs = [i \in Idxs |-> 0]
    /\ handles = [h \in Handles |-> [idx |-> 0, deleted |-> FALSE]]
    /\ nhandles = 0
    /\ removedBy = [h \in Handles |-> "none"]
    /\ sinceClear = FALSE
    /\ gres = Outcome("none", 0, 0, "ok", <<>>)

\* egui_pysync before any state object is constructed
InitPysync ==
    /\ counter = Counter_init
    /\ objects = <<>>
    /\ phase = "construct"
    /\ ps_callbacks = [id \in PsIds |-> <<>>]
    /\ ps_keys = {}
    /\ ps_sent = [id \in PsIds |-> "none"]
    /\ ps_gone = {}
    /\ ps_res = PsCall("none", 0, "-", "ok", <<>>)

\* a server whose construction is over (a states object without attributes)
InitConstructed ==
    /\ tree = [parent |-> [k \in Nodes |-> 0], kind |-> [k \in Nodes |-> "other"]]
    /\ stack = <<>>
    /\ regs = <<>>
    /\ finalized = 1
    /\ logging = TRUE
    /\ lastOp = "none"

\* LoggingSignal.__init__: {0: [], 1: [], 2: [], 3: []}
InitLogging ==
    /\ loggers = [l \in Levels |-> <<>>]
    /\ fan = NoFan
    /\ logres = [Ended(NoFan) EXCEPT !.ended = FALSE]

\* every id is in single mode until it is switched; no callback invoked yet
InitModes ==
    /\ mode = [id \in Ids |-> "single"]
    /\ lastInv = [id \in Ids |-> 0]
    /\ InitMore


InitExt ==
    /\ package = "egui_states"
    /\ InitPysync
    /\ InitConstructed
    /\ InitLogging
    /\ InitModes

Init == InitSignals /\ InitPool /\ InitCore /\ InitGraphs /\ InitExt

\* a ValueGraphs object of either package
InitPackages ==
    /\ InitSignals /\ InitPool /\ InitCore /\ InitGraphs
    /\ package \in Packages
    /\ InitPysync
    /\ InitConstructed
    /\ InitLogging
    /\ InitModes

\* StateServerBase.__init__ up to the call of _initialize on the states object
InitStates ==
    /\ InitSignals /\ InitPool /\ InitCore /\ InitGraphs
    /\ package = "egui_states"
    /\ InitPysync
    /\ InitLogging
    /\ InitModes
    /\ tree \in Trees
    /\ stack = <<[obj |-> 0, items |-> Items(tree, 0, 1), i |-> 1, name |-> <<0>>]>>
    /\ regs = <<>>
    /\ finalized = 0
    /\ logging = FALSE
    /\ lastOp = "none"

\* The callback table alone, every id, calls made one at a time.
NextSignals ==
    \/ \E id \in Ids, f \in Funcs : add_callback(id, f)
    \/ \E id \in Ids, f \in Funcs : remove_callback(id, f)
    \/ \E id \in Ids : clear_callbacks(id)
    \/ \E h \in HandlerArgs : set_error_handler(h)

SpecSignals == Init /\ [][NextSignals]_vars

\* One ValueGraphs object and the Graph handles it gave out.
NextGraphs ==
    \/ \E idx \in Idxs \cup {-1} : ValueGraphs_set(idx)
    \/ \E idx \in Idxs : ValueGraphs_get(idx)
    \/ \E h \in Handles : ValueGraphs_remove(h)
    \/ \E idx \in Idxs : ValueGraphs_remove_idx(idx)
    \/ ValueGraphs_clear
    \/ \E h \in Handles : Graph_len(h)
    \/ \E h \in Handles : Graph_add_points(h)
    \/ \E h \in Handles : Graph_set(h)
    \/ \E h \in Handles : Graph_get(h)
    \/ \E h \in Handles : Graph_is_linear(h)

SpecGraphs == Init /\ [][NextGraphs]_vars

\* One ValueGraphs object of egui_pysync and the handles it gave out.
NextPysyncGraphs ==
    \/ \E idx \in Idxs \cup {-1} : pysync_ValueGraphs_set(idx)
    \/ \E idx \in Idxs : pysync_ValueGraphs_get(idx)
    \/ \E h \in Handles : pysync_ValueGraphs_remove(h)
    \/ \E idx \in Idxs : pysync_ValueGraphs_remove_idx(idx)
    \/ pysync_ValueGraphs_clear
    \/ \E h \in Handles : pysync_Graph_len(h)
    \/ \E h \in Handles : pysync_Graph_add_points(h)
    \/ \E h \in Handles : pysync_Graph_set(h)
    \/ \E h \in Handles : pysync_Graph_get(h)

\* The ValueGraphs of the two packages, each with its own operations.
NextPackages ==
    \/ package = "egui_states" /\ NextGraphs
    \/ package = "egui_pysync" /\ NextPysyncGraphs

SpecPackages == InitPackages /\ [][NextPackages]_vars

\* The ids the manager is called with here: the error signal's, which is always
\* registered, and the first id the counter hands out, which is registered only
\* when the first state object is a _ValueBase.
Connectable == {0, Counter_init + 1}

\* egui_pysync: the states object is built, the server constructed, then callbacks
\* are connected and disconnected and events dispatched.
NextPysync ==
    \/ \E kind \in Kinds : StaticBase_init(kind)
    \/ StateServer_init
    \/ \E id \in Connectable, f \in Funcs : pysync_add_callback(id, f)
    \/ \E id \in Connectable, f \in Funcs : pysync_remove_callback(id, f)
    \/ \E id \in Connectable : pysync_clear_callbacks(id)
    \/ \E ind \in Connectable : pysync_run(ind)

SpecPysync == Init /\ [][NextPysync]_vars

\* The construction of StateServerBase, then the public operations of the
\* server and of the objects its states object declares.
NextStates ==
    \/ Walk_StaticBase
    \/ Walk_SubStates
    \/ Walk_Other
    \/ Walk_Return
    \/ Finalize
    \/ LoggingSignal_init
    \/ constructed /\ Start
    \/ constructed /\ Stop
    \/ Server_update
    \/ Value_set
    \/ \E id \in ConnectIds, f \in Funcs :
          constructed /\ "Value" \in Declared /\ add_callback(id, f)
    \/ constructed /\ "ValueGraphs" \in Declared /\ ValueGraphs_set(0)
    \/ constructed /\ "ValueGraphs" \in Declared /\ ValueGraphs_remove_idx(0)

SpecStates == InitStates /\ [][NextStates]_vars

\* The LoggingSignal: loggers added and removed by the application while the
\* worker of the logging channel hands messages to _callback.
NextLogging ==
    \/ \E l \in Levels, f \in Funcs : add_logger(l, f)
    \/ \E l \in Levels, f \in Funcs : remove_logger(l, f)
    \/ \E l \in Levels : remove_all_loggers(l)
    \/ \E l \in MsgLevels, m \in Msgs : LoggingSignal_callback_call(l, m)
    \/ LoggingSignal_callback

SpecLogging == Init /\ [][NextLogging]_vars

\* The dispatch pipeline with ids in either mode: callbacks are connected, ids
\* switched between the modes, and the workers dispatch what the core hands them.
NextModes ==
    \/ \E id \in ConnectIds, f \in Funcs : add_callback(id, f)
    \/ \E id \in Ids : signal_set_to_queue(id)
    \/ \E id \in Ids : signal_set_to_single(id)
    \/ Start
    \/ CheckWorkers
    \/ \E id \in Ids : CoreEmit(id)
    \/ \E t \in Threads : RunFetch(t)
    \/ \E t \in Threads : RunLookup(t)
    \/ \E t \in Threads : RunIter(t)
    \/ \E t \in Threads : RunExcept(t)

SpecModes == Init /\ [][NextModes]_vars

\* Callbacks are connected while no worker holds an event, and disconnected at any
\* moment: from another thread during a dispatch, or by a callback between two
\* rounds of the for loop.
NextDisconnect ==
    \/ \E id \in ConnectIds, f \in Funcs :
          (\A t \in Threads : ~Busy(t)) /\ add_callback(id, f)
    \/ \E id \in ConnectIds, f \in Funcs : remove_callback(id, f)
    \/ Start
    \/ \E id \in ConnectIds : CoreEmit(id)
    \/ \E t \in Threads : RunFetch(t)
    \/ \E t \in Threads : RunLookup(t)
    \/ \E t \in Threads : RunIter(t)
    \/ \E t \in Threads : RunExcept(t)

SpecDisconnect == Init /\ [][NextDisconnect]_vars

\* start() and check_workers called by several threads, their steps interleaved
\* with each other and with workers that take events and end in the error handler.
NextStartRace ==
    \/ \E c \in Callers : Race_start(c)
    \/ \E c \in Callers : Race_spawn(c)
    \/ \E c \in Callers : Race_check_workers(c)
    \/ \E c \in Callers : Race_is_alive(c)
    \/ \E c \in Callers : Race_replace(c)
    \/ \E c \in Callers : Race_core_start(c)
    \/ \E id \in Ids : CoreEmit(id)
    \/ \E t \in Threads : RunFetch(t)
    \/ \E t \in Threads : RunLookup(t)
    \/ \E t \in Threads : RunExcept(t)

SpecStartRace == Init /\ [][NextStartRace]_vars

\* connect, disconnect and disconnect_all of one id called by several threads.
NextRegisterRace ==
    \/ \E c \in Callers, id \in ConnectIds, f \in Funcs : Race_add_callback(c, id, f)
    \/ \E c \in Callers : Race_send_true(c)
    \/ \E c \in Callers, id \in ConnectIds, f \in Funcs : Race_remove_callback(c, id, f)
    \/ \E c \in Callers : Race_test_empty(c)
    \/ \E c \in Callers, id \in ConnectIds : Race_clear_callbacks(c, id)
    \/ \E c \in Callers : Race_send_false(c)

SpecRegisterRace == Init /\ [][NextRegisterRace]_vars

\* Values are set and flushed while peers come and go.
NextSync ==
    \/ Start
    \/ \E id \in Ids, v \in Vals : Value_set_value(id, v)
    \/ \E duration \in Durations : StateServerBase_update(duration)
    \/ core_timer
    \/ disconnect_client
    \/ core_connection_lost
    \/ core_peer_connect

SpecSync == Init /\ [][NextSync]_vars

\* Callables of every form connected to one id and called for its events.
NextForms ==
    \/ \E form \in Forms : Forms_connect(form)
    \/ \E arg \in Payloads : Forms_event(arg)
    \/ Forms_iter

SpecForms == Init /\ [][NextForms]_vars

\* The dispatch pipeline: application calls interleaved with the workers' steps.
Next ==
    \/ \E id \in ConnectIds, f \in Funcs : add_callback(id, f)
    \/ \E id \in ConnectIds, f \in Funcs : remove_callback(id, f)
    \/ \E id \in ConnectIds : clear_callbacks(id)
    \/ \E h \in HandlerArgs : set_error_handler(h)
    \/ Start
    \/ Stop
    \/ CheckWorkers
    \/ \E id \in Ids : CoreEmit(id)
    \/ \E t \in Threads : RunFetch(t)
    \/ \E t \in Threads : RunLookup(t)
    \/ \E t \in Threads : RunIter(t)
    \/ \E t \in Threads : RunExcept(t)

Spec == Init /\ [][Next]_vars

\* ================================================================ claims
\* The id of the event thread t is dispatching.
CurId(t) == emitted[threads[t].cur]

\* Thread t finishes its event in this step and is back waiting for the next one.
Completes(t) ==
    /\ Dispatching(t)
    /\ threads'[t].st = "running"
    /\ threads'[t].pc = "fetch"

\* Thread t calls the error handler in this step.
HandlerStep(t) ==
    /\ threads[t].st = "running"
    /\ threads[t].pc = "except"
    /\ (threads'[t].pc # "except" \/ threads'[t].st # "running")

\* C1: for every id the last value passed to value_set_register is True exactly
\* when the callback list of the id is non-empty, and True was never sent for an
\* id whose list has always been empty.
C1_RegisteredIffConnected ==
    \A id \in Ids :
        /\ (registered[id] = "True") <=> (callbacks[id] # <<>>)
        /\ (id \in sentTrue) => (id \in everNonEmpty)

\* C1 witness: one id was connected twice and another was connected and then
\* disconnected again.
C1_Witness ==
    \E a \in Ids, b \in Ids :
        /\ Len(callbacks[a]) = 2 /\ registered[a] = "True"
        /\ callbacks[b] = <<>> /\ registered[b] = "False" /\ b \in sentTrue

\* C2 as stated: when a worker has finished an event whose callback list was not
\* changed meanwhile, every function in the list was invoked exactly once, however
\* often it was connected; and no event is fetched twice.
C2_EachFunctionOnce ==
    [][/\ \A t \in Threads :
            (Completes(t) /\ ~threads[t].modified) =>
                \A f \in Funcs :
                    InList(callbacks[CurId(t)], f) => Count(threads[t].inv, f) = 1
       /\ \A e \in 1..MaxEvents : fetched'[e] <= 1]_vars

\* C2 amended: when a worker has finished an event whose callback list was not
\* changed meanwhile, the invocations are exactly the entries of the list, in order,
\* one invocation per connect call (a function connected twice is invoked twice);
\* and no event is fetched twice.
C2_OncePerConnection ==
    [][/\ \A t \in Threads :
            (Completes(t) /\ ~threads[t].modified) =>
                threads[t].inv = callbacks[CurId(t)]
       /\ \A e \in 1..MaxEvents : fetched'[e] <= 1]_vars

\* C2 witness: a function connected by two connect calls has been invoked twice
\* for one event.
C2_Witness ==
    \E t \in Threads :
        /\ threads[t].st = "running" /\ threads[t].pc = "iter"
        /\ ~threads[t].modified
        /\ callbacks[CurId(t)] = <<"f", "f">>
        /\ threads[t].inv = <<"f", "f">>

\* C3 as stated: when a callback raised, the exception is passed once to the handler
\* installed at that moment, the worker goes on with the remaining callbacks in
\* connection order and then waits for the next event.
C3_CallbackErrorHandled ==
    [][\A t \in Threads :
        /\ (HandlerStep(t) /\ threads[t].err.kind = "callback") =>
              /\ threads'[t].hcall = HandlerCall(error_handler, threads[t].err)
              /\ threads'[t].err = NoError
              /\ threads'[t].st = "running"
              /\ threads'[t].pc = "iter"
              /\ threads'[t].pos = threads[t].pos
              /\ threads'[t].inv = threads[t].inv
        /\ (Completes(t) /\ ~threads[t].modified /\ threads[t].hcall # NoCall) =>
              threads[t].inv = callbacks[CurId(t)]]_vars

\* C3 amended: when a callback raised, the exception is passed once to the handler
\* installed at that moment; if the handler returns, the worker goes on with the
\* remaining callbacks in connection order and then waits for the next event; if
\* the handler (never the default one) raises, the worker thread ends.
C3_CallbackErrorHandledIfHandlerReturns ==
    [][\A t \in Threads :
        /\ (HandlerStep(t) /\ threads[t].err.kind = "callback") =>
              /\ threads'[t].hcall = HandlerCall(error_handler, threads[t].err)
              /\ threads'[t].err = NoError
              /\ \/ /\ threads'[t].st = "running"
                    /\ threads'[t].pc = "iter"
                    /\ threads'[t].pos = threads[t].pos
                    /\ threads'[t].inv = threads[t].inv
                 \/ /\ threads'[t].st = "dead"
                    /\ error_handler # "default"
        /\ (Completes(t) /\ ~threads[t].modified /\ threads[t].hcall # NoCall) =>
              threads[t].inv = callbacks[CurId(t)]]_vars

\* C3 witness: the first of two callbacks raised, the handler was called with its
\* exception and the second callback was invoked after that.
C3_Witness ==
    \E t \in Threads :
        /\ threads[t].st = "running" /\ threads[t].pc = "iter"
        /\ ~threads[t].modified
        /\ threads[t].inv = <<"f", "g">>
        /\ threads[t].hcall.err = CallbackError("f")

\* What the lookup of thread t finds: the list under the id, nothing when the id
\* is no key.
Found(t) == IF CurId(t) \in cbKeys THEN callbacks[CurId(t)] ELSE <<>>

\* C4 as stated: an event whose id has no callback makes the worker call the error
\* handler once with the lookup error naming the id, no callback is invoked, and the
\* worker waits for the next event.
C4_NoCallbackReported ==
    [][\A t \in Threads :
        /\ (threads[t].st = "running" /\ threads[t].pc = "lookup"
                /\ threads'[t] # threads[t] /\ Found(t) = <<>>) =>
              /\ threads'[t].pc = "except"
              /\ threads'[t].err = IndexError(CurId(t))
              /\ threads'[t].inv = <<>>
        /\ (HandlerStep(t) /\ threads[t].err.kind = "IndexError") =>
              /\ threads[t].inv = <<>>
              /\ threads'[t].hcall = HandlerCall(error_handler, IndexError(CurId(t)))
              /\ threads'[t].inv = <<>>
              /\ threads'[t].st = "running"
              /\ threads'[t].pc = "fetch"]_vars

\* C4 amended: as stated, but the worker waits for the next event only if the
\* handler returns; if the handler (never the default one) raises, the worker
\* thread ends.
C4_NoCallbackReportedIfHandlerReturns ==
    [][\A t \in Threads :
        /\ (threads[t].st = "running" /\ threads[t].pc = "lookup"
                /\ threads'[t] # threads[t] /\ Found(t) = <<>>) =>
              /\ threads'[t].pc = "except"
              /\ threads'[t].err = IndexError(CurId(t))
              /\ threads'[t].inv = <<>>
        /\ (HandlerStep(t) /\ threads[t].err.kind = "IndexError") =>
              /\ threads[t].inv = <<>>
              /\ threads'[t].hcall = HandlerCall(error_handler, IndexError(CurId(t)))
              /\ threads'[t].inv = <<>>
              /\ threads'[t].pc = "fetch"
              /\ \/ threads'[t].st = "running"
                 \/ threads'[t].st = "dead" /\ error_handler # "default"]_vars

\* C4 witness: a worker has reported an event of an id that never had a callback
\* and waits for the next event.
C4_Witness ==
    \E t \in Threads :
        /\ threads[t].st = "running" /\ threads[t].pc = "fetch"
        /\ threads[t].cur # 0
        /\ CurId(t) \notin cbKeys
        /\ threads[t].hcall.err = IndexError(CurId(t))

\* The server was started and then stopped.
Stopped == workers # <<>> /\ ~running

\* No worker can take a step: the queue is empty and each live worker is blocked
\* in value_get_signal.
Quiescent ==
    /\ queue = <<>>
    /\ \A t \in Threads : threads[t].st = "running" => threads[t].pc = "fetch"

\* C5: after stop() the worker threads have left their loop once nothing is left to
\* do: no worker stays blocked waiting for the next event.
C5_StopEndsWorkers ==
    (Stopped /\ Quiescent) => \A t \in Threads : threads[t].st # "running"

\* C6: check_workers puts a new running thread with the same index in every slot
\* whose thread is not alive, leaves the alive ones as they are, ends with every
\* slot alive, and changes nothing when all are alive or none was started.
C6_CheckWorkersRestartsDead ==
    [][check_workers =>
        /\ Len(workers') = Len(workers)
        /\ \A k \in 1..Len(workers) :
              /\ threads[workers[k]].arg = k - 1
              /\ threads'[workers'[k]].st = "running"
              /\ threads'[workers'[k]].arg = k - 1
              /\ IF threads[workers[k]].st = "running"
                 THEN /\ workers'[k] = workers[k]
                      /\ threads'[workers[k]] = threads[workers[k]]
                 ELSE /\ workers'[k] # workers[k]
                      /\ threads[workers'[k]].st = "unborn"
                      /\ threads'[workers'[k]] = NewThread(k - 1)
                      /\ threads'[workers[k]] = threads[workers[k]]
        /\ (\A k \in 1..Len(workers) : threads[workers[k]].st = "running") =>
              UNCHANGED poolVars]_vars

\* C6 witness: one slot holds the replacement of a dead thread, the other still
\* holds its first thread, alive.
C6_Witness ==
    \E k \in 1..Len(workers), j \in 1..Len(workers) :
        /\ workers[k] > WorkersCount
        /\ threads[workers[k]].st = "running"
        /\ threads[workers[k]].arg = k - 1
        /\ \E d \in Threads : threads[d].st = "dead" /\ threads[d].arg = k - 1
        /\ j # k
        /\ workers[j] <= WorkersCount
        /\ threads[workers[j]].st = "running"

\* C7: a worker thread ends only in its own call of a raising error handler, this
\* leaves every other thread and the worker list as they are, a thread that ended
\* never runs again, and its slot gets a live thread only by check_workers (also
\* when start calls it).
C7_OnlyThatWorkerEnds ==
    [][/\ \A t \in Threads :
            (threads[t].st = "running" /\ threads'[t].st # "running") =>
                /\ HandlerStep(t)
                /\ error_handler # "default"
                /\ threads'[t].st = "dead"
                /\ workers' = workers
                /\ \A u \in Threads \ {t} : threads'[u] = threads[u]
       /\ \A t \in Threads : threads[t].st = "dead" => threads'[t].st = "dead"
       /\ \A k \in 1..Len(workers) :
            (threads[workers[k]].st = "dead" /\ workers' # workers) => check_workers]_vars

\* C7 witness: one worker ended in the handler and another one is dispatching.
C7_Witness ==
    \E k \in 1..Len(workers), j \in 1..Len(workers) :
        /\ threads[workers[k]].st = "dead"
        /\ threads[workers[k]].hcall # NoCall
        /\ threads[workers[j]].st = "running"
        /\ threads[workers[j]].pc = "iter"
        /\ Len(threads[workers[j]].inv) >= 1

\* C8: a worker takes a new event only when it is idle, that is when every callback
\* of its previous event has returned, and the events it takes are in arrival order;
\* callbacks run only for the event the worker holds.
C8_OneEventAtATime ==
    [][\A t \in Threads :
        /\ (threads'[t].cur # threads[t].cur) =>
              /\ threads[t].st = "running"
              /\ threads[t].pc = "fetch"
              /\ threads[t].inv = <<>>
              /\ threads'[t].cur > threads[t].cur
              /\ threads'[t].inv = <<>>
        /\ (threads'[t].inv # threads[t].inv /\ threads'[t].inv # <<>>) =>
              /\ threads'[t].cur = threads[t].cur
              /\ threads[t].pc = "iter"
              /\ Len(threads'[t].inv) = Len(threads[t].inv) + 1]_vars

\* C8 witness: one worker has handled the first event and is now invoking the
\* callbacks of the second, which has the same id.
C8_Witness ==
    \E t \in Threads :
        /\ threads[t].cur = 2
        /\ emitted[1] = emitted[2]
        /\ Len(threads[t].inv) >= 1
        /\ \A u \in Threads \ {t} : threads[u].cur = 0

\* The operations on a Graph handle.
HandleOps == {"len", "add_points", "set", "get", "is_linear"}

\* C9: add_points on a handle that was removed, while stored, by remove or by
\* remove_idx fails with the deleted-graph error and makes no core call; and as long
\* as nothing was set after clear(), get(idx) fails with the lookup error.
C9_RemovedThenAddPointsFails ==
    /\ (gres.op = "add_points" /\ removedBy[gres.h] \in {"remove", "remove_idx"}) =>
          (gres.result = "RuntimeError" /\ gres.sent = <<>>)
    /\ \A h \in Handles : removedBy[h] \in {"remove", "remove_idx"} => ~check(h)
    /\ (gres.op = "graphs.get" /\ sinceClear) => gres.result = "KeyError"
    /\ sinceClear => \A i \in Idxs : graphs[i] = 0

\* C9 witness: add_points was called on a handle removed by remove(g).
C9_Witness ==
    /\ gres.op = "add_points"
    /\ removedBy[gres.h] = "remove"
    /\ gres.result = "RuntimeError"

\* C10: every operation on a handle that is no longer stored in its ValueGraphs,
\* however it was removed, fails with the deleted-graph error before any core call.
C10_RemovedHandleAlwaysFails ==
    (gres.op \in HandleOps /\ removedBy[gres.h] # "none") =>
        (gres.result = "RuntimeError" /\ gres.sent = <<>>)

\* ----------------------------------------------------------- C11 .. C13
\* set(graph) with idx left at None, in the package of the object
SetNone ==
    \/ package = "egui_states" /\ ValueGraphs_set(-1)
    \/ package = "egui_pysync" /\ pysync_ValueGraphs_set(-1)

\* C11: whatever set, remove, remove_idx and clear calls came before, set with
\* idx=None stores the new graph under the smallest non-negative integer that is
\* no index of a stored graph: the index was free, every smaller one is in use,
\* and the graphs stored under the other indices stay where they are.
C11_SetNoneUsesSmallestFree ==
    [][SetNone =>
          LET idx == gres'.idx
          IN /\ gres'.op = "graphs.set" /\ gres'.result = "ok"
             /\ idx >= 0
             /\ graphs[idx] = 0
             /\ \A j \in 0..(idx - 1) : graphs[j] # 0
             /\ nhandles' = nhandles + 1
             /\ gres'.h = nhandles'
             /\ graphs'[idx] = gres'.h
             /\ \A j \in Idxs \ {idx} : graphs'[j] = graphs[j]]_vars

\* C11 witness: idx 0 was filled again by the newest handle while an older graph
\* sits at idx 1 and some graph has been removed before (egui_pysync object).
C11_Witness ==
    /\ package = "egui_pysync"
    /\ gres.op = "graphs.set" /\ gres.idx = 0 /\ gres.h = nhandles
    /\ graphs[0] = nhandles
    /\ graphs[1] # 0 /\ graphs[1] < nhandles
    /\ \E h \in Handles : removedBy[h] # "none"

\* C12: in egui_states, set with an idx that holds a graph returns the handle
\* stored under idx, leaves it alive, creates no handle, leaves the stored
\* indices as they are and sends exactly one graphs_set.
C12_SetExistingUpdatesInPlace ==
    [][\A idx \in Idxs :
          (graphs[idx] # 0 /\ ValueGraphs_set(idx)) =>
              /\ gres'.op = "graphs.set" /\ gres'.result = "ok"
              /\ gres'.h = graphs[idx]
              /\ ~handles'[graphs[idx]].deleted
              /\ nhandles' = nhandles
              /\ handles' = handles
              /\ graphs' = graphs
              /\ gres'.sent = <<Call("graphs_set", idx)>>]_vars

\* C12 witness: the last operation was a set that returned an older handle which
\* is still the one stored under its idx.
C12_Witness ==
    /\ gres.op = "graphs.set" /\ gres.result = "ok"
    /\ gres.h # 0 /\ gres.h < nhandles
    /\ graphs[gres.idx] = gres.h
    /\ ~handles[gres.h].deleted

\* C13: in egui_pysync, set with an idx in use returns the handle that get(idx)
\* returned before the call, and that handle is usable afterwards.
C13_SetExistingReturnsExisting ==
    [][\A idx \in Idxs :
          (package = "egui_pysync" /\ graphs[idx] # 0 /\ pysync_ValueGraphs_set(idx)) =>
              /\ gres'.h = graphs[idx]
              /\ ~handles'[graphs[idx]].deleted]_vars

\* ------------------------------------------------------------------ C14
\* C14: the ids the registry counter hands out are strictly increasing, never
\* repeated and never in the reserved block 0..9: the k-th object gets 10+k-1.
C14_IdsAfterReservedBlock ==
    /\ \A k \in 1..Len(objects) :
          /\ objects[k].id = 10 + k - 1
          /\ objects[k].id \notin 0..9
    /\ \A j, k \in 1..Len(objects) : j < k => objects[j].id < objects[k].id

\* C14 witness: three objects have been given their ids.
C14_Witness == Len(objects) >= 3 /\ phase = "open"

\* ------------------------------------------------------------------ C18
\* C18: in egui_pysync, disconnect(cb) on a registered value after one
\* connect(cb) leaves cb out of the callback list and sends
\* value_set_register(id, False) when the list became empty; later events of
\* the id do not invoke cb.
C18_DisconnectRemoves ==
    [][/\ \A id \in PsIds, f \in Funcs :
             (id \in ps_keys /\ Count(ps_callbacks[id], f) = 1
                 /\ pysync_remove_callback(id, f)) =>
                 /\ ~InList(ps_callbacks'[id], f)
                 /\ (ps_callbacks'[id] = <<>> => ps_sent'[id] = "False")
       /\ \A ind \in PsIds :
             pysync_run(ind) =>
                 \A f \in Funcs : <<ind, f>> \in ps_gone => ~InList(ps_res'.inv, f)]_vars

\* ------------------------------------------------------------ C15, C16
\* C15: every registration call reaches the core before finalize(), finalize()
\* is called once and before start() can be called, and no operation called
\* after the construction issues a registration call or a second finalize().
C15_RegistrationBeforeFinalize ==
    /\ [](finalized <= 1)
    /\ []((running \/ workers # <<>>) => finalized = 1)
    /\ [][regs' # regs => finalized = 0 /\ finalized' = 0]_vars
    /\ [][finalized = 1 => regs' = regs /\ finalized' = 1]_vars

\* C15 witness: a started server whose construction registered two objects, after
\* a graph was set.
C15_Witness ==
    /\ constructed /\ running
    /\ Len(regs) >= 2
    /\ gres.op = "graphs.set"

\* the state objects reachable from object p through nested ISubStates, depth
\* first in attribute order, each with its attribute path
RECURSIVE DepthFirst(_, _, _)
DepthFirst(p, path, k) ==
    IF k > MaxNodes THEN <<>>
    ELSE IF tree.parent[k] # p THEN DepthFirst(p, path, k + 1)
    ELSE IF tree.kind[k] \in StaticBaseKinds
         THEN <<[node |-> k, name |-> Append(path, k)]>> \o DepthFirst(p, path, k + 1)
    ELSE IF tree.kind[k] = "sub"
         THEN DepthFirst(k, Append(path, k), 1) \o DepthFirst(p, path, k + 1)
    ELSE DepthFirst(p, path, k + 1)

\* C16: when the walk is over, the registrations are exactly the reachable state
\* objects, each once, depth first in attribute order, each under the name
\* made of 'root' and its attribute path.
C16_WalkDepthFirst ==
    finalized >= 1 =>
        /\ [k \in 1..Len(regs) |-> [node |-> regs[k].node, name |-> regs[k].name]]
               = DepthFirst(0, <<0>>, 1)
        /\ \A j, k \in 1..Len(regs) : j # k => regs[j].node # regs[k].node
        /\ \A k \in 1..Len(regs) : regs[k].call = AddCall(tree.kind[regs[k].node])

\* C16 witness: a nested object was registered before an attribute of the root
\* that comes after the sub-state.
C16_Witness ==
    /\ finalized >= 1
    /\ \E j, k \in 1..Len(regs) :
          /\ j < k
          /\ regs[j].node > regs[k].node
          /\ Len(regs[j].name) = 3
          /\ Len(regs[k].name) = 2

\* ------------------------------------------------------------------ C17
\* the loggers a _callback call invoked, in order
Invoked(r) == [k \in 1..Len(r.inv) |-> r.inv[k][1]]

\* C17: a log event (level, message) invokes the loggers added for its level and
\* not removed, each once per add, in the order of the list, with the message
\* text; a level outside 0..3 invokes none.  `start` is the list of the level
\* when the event came in: every logger of it that was not removed meanwhile is
\* invoked as often as it was added, nothing else is invoked if the list was
\* left alone, and every invocation gets the message.
C17_LogFanOut ==
    logres.ended =>
        /\ logres.level \notin Levels => logres.inv = <<>>
        /\ \A k \in 1..Len(logres.inv) : logres.inv[k][2] = logres.msg
        /\ \A f \in Funcs :
              (InList(logres.start, f) /\ f \notin logres.removed) =>
                  Count(Invoked(logres), f) >= Count(logres.start, f)
        /\ logres.removed = {} =>
              \A k \in 1..Len(logres.start) :
                  k <= Len(logres.inv) /\ Invoked(logres)[k] = logres.start[k]

\* The events of `id` that have arrived so far.
EventsOf(id) == {e \in 1..Len(emitted) : emitted[e] = id}

\* The last change of `id` that has arrived.
LastOf(id) == CHOOSE e \in EventsOf(id) : \A d \in EventsOf(id) : d <= e

\* The events that wait in the queue.
Queued == {queue[k] : k \in 1..Len(queue)}

\* The threads that hold an unfinished event of `id`.
BusyWith(id) == {t \in Threads : Busy(t) /\ CurId(t) = id}

Settled(id) == Waiting(id) = {} /\ BusyWith(id) = {}

RemoveOf(h) ==
    \/ package = "egui_states" /\ ValueGraphs_remove(h)
    \/ package = "egui_pysync" /\ pysync_ValueGraphs_remove(h)

\* C30: ValueGraphs.remove called with a handle that has already left the dict
\* sends nothing to the core and leaves the dict and every handle as they were.
C30_StaleRemoveNoEffect ==
    [][\A h \in Handles :
        (RemoveOf(h) /\ h \in Created /\ removedBy[h] # "none") =>
            /\ gres'.sent = <<>>
            /\ graphs' = graphs
            /\ handles' = handles]_vars

\* C24: in egui_pysync add_callback and remove_callback with an id that was never
\* registered end with RuntimeError and clear_callbacks with such an id returns
\* silently; none of them changes the callback table or sends value_set_register.
C24_UnknownIdRejected ==
    [][\A id \in PsIds \ ps_keys :
        /\ \A f \in Funcs :
              (pysync_add_callback(id, f) \/ pysync_remove_callback(id, f)) =>
                  /\ ps_res'.result = "RuntimeError"
                  /\ ps_res'.id = id
                  /\ ps_callbacks' = ps_callbacks
                  /\ ps_keys' = ps_keys
                  /\ ps_sent' = ps_sent
        /\ pysync_clear_callbacks(id) =>
              /\ ps_res' = ps_res
              /\ ps_callbacks' = ps_callbacks
              /\ ps_keys' = ps_keys
              /\ ps_sent' = ps_sent]_vars

\* C24 witness: add_callback was called with an id no object registered and raised.
C24_Witness ==
    /\ phase = "open"
    /\ ps_res.op = "add_callback"
    /\ ps_res.result = "RuntimeError"
    /\ ps_res.id \notin ps_keys
    /\ ps_callbacks[ps_res.id] = <<>>
    /\ ps_sent[ps_res.id] = "none"

\* C25: until start() has been called no worker thread exists, no event was taken
\* and no callback was invoked; worker threads first come into being in a step of
\* start(), and start() leaves the callbacks connected so far as they are.
C25_NoWorkerBeforeStart ==
    /\ [](workers = <<>> =>
            /\ nthreads = 0
            /\ \A t \in Threads : threads[t].st = "unborn"
            /\ \A e \in 1..MaxEvents : fetched[e] = 0
            /\ \A id \in Ids : lastInv[id] = 0)
    /\ [][(workers = <<>> /\ threads' # threads) => Start]_vars
    /\ [][Start => (callbacks' = callbacks /\ cbKeys' = cbKeys /\ registered' = registered)]_vars

\* C25 witness: a callback is connected and start() has not been called yet.
C25_Witness ==
    /\ workers = <<>>
    /\ ~running
    /\ callbacks[1] # <<>>
    /\ registered[1] = "True"

\* C26: once start() has been called the manager holds WorkersCount slots, the
\* thread of slot i was created with thread_id i, and a step of start(), stop() or
\* check_workers puts a new thread into a slot only if the slot's thread is not alive.
C26_WorkerSlotsFixed ==
    /\ [](workers # <<>> =>
            /\ Len(workers) = WorkersCount
            /\ \A k \in 1..Len(workers) :
                  /\ workers[k] \in 1..nthreads
                  /\ threads[workers[k]].st # "unborn"
                  /\ threads[workers[k]].arg = k - 1)
    /\ [][workers # <<>> =>
            /\ Len(workers') = Len(workers)
            /\ \A k \in 1..Len(workers) :
                  workers'[k] # workers[k] =>
                      /\ threads[workers[k]].st = "dead"
                      /\ threads'[workers'[k]].st = "running"
                      /\ threads[workers'[k]].st = "unborn"
            /\ \A t \in Threads :
                  (threads[t].st = "unborn" /\ threads'[t].st # "unborn") =>
                      \E k \in 1..Len(workers) : workers'[k] = t /\ workers[k] # t]_vars

\* C26 witness: the server was started, a worker ended and its slot was refilled,
\* and the server is stopped.
C26_Witness ==
    /\ ~running
    /\ Len(workers) = WorkersCount
    /\ nthreads = WorkersCount + 1
    /\ \E k \in 1..Len(workers) : workers[k] = nthreads
    /\ \E k \in 1..Len(workers) : workers[k] <= WorkersCount /\ threads[workers[k]].st = "running"

\* C29: when a worker has finished an event, every callback that was connected
\* during the whole dispatch has been invoked for it, whatever was disconnected
\* meanwhile (no callback is connected while an event is being dispatched here, so
\* the entries of the list at the end were in it from the start).
C29_DisconnectSkipsNone ==
    [][\A t \in Threads :
        Completes(t) =>
            \A f \in Funcs :
                Count(threads[t].inv, f) >= Count(callbacks[CurId(t)], f)]_vars

\* The forms that take no parameter.
NoParamForms == {"function0", "method0"}

\* C23: every connected callable the for loop has come to was called, without
\* arguments if it takes none and with the payload alone otherwise.
C23_CalledByForm ==
    \A k \in 1..Len(disp.out) :
        disp.out[k] = Called(conn[k], IF conn[k] \in NoParamForms THEN <<>> ELSE <<disp.arg>>)

\* The live worker threads that were created with thread_id i.
LiveWorkers(i) == {t \in Threads : threads[t].st = "running" /\ threads[t].arg = i}

\* C27: at any moment at most one live worker thread exists per worker index, and
\* the live workers are never more than the configured number.
C27_OneLiveWorkerPerIndex ==
    /\ \A i \in 0..(WorkersCount - 1) : Cardinality(LiveWorkers(i)) <= 1
    /\ Cardinality({t \in Threads : threads[t].st = "running"}) <= WorkersCount

\* C28: when no thread is inside connect, disconnect or disconnect_all, the last
\* value_set_register sent for an id is True exactly if its callback list is not empty.
C28_RegisterMatchesList ==
    (\A c \in Callers : At(c, "idle")) =>
        \A id \in Ids : (registered[id] = "True") <=> (callbacks[id] # <<>>)

\* C21: what a connected peer has been sent starts with the full current value of
\* every registered object, each once, as it was when the peer connected, and
\* everything after that is an incremental update.
C21_ResyncOnReconnect ==
    /\ [](peer =>
            /\ Len(wire) >= MaxIds
            /\ \A k \in 1..Len(wire) :
                  IF k <= MaxIds
                  THEN wire[k].kind = "full" /\ wire[k].id = k
                  ELSE wire[k].kind = "inc")
    /\ [][(~peer /\ peer') =>
            \A k \in 1..MaxIds : wire'[k] = Msg("full", k, store[k])]_vars

\* C21 witness: a second peer has connected, got the snapshot with a value that is
\* not the initial one, and then an incremental update.
C21_Witness ==
    /\ peer
    /\ connects = 2
    /\ \E k \in 1..MaxIds : wire[k].val # 0
    /\ Len(wire) > MaxIds
    /\ wire[MaxIds + 1].kind = "inc"

\* C22: update(None) sends every dirty object to the peer at once and leaves none
\* dirty; update(duration) sends nothing and leaves one flush scheduled however
\* often it is called before that flush runs; the scheduled flush sends every
\* dirty object and leaves none dirty and none scheduled.
C22_UpdateFlushes ==
    /\ [](timers <= 1)
    /\ [][/\ (StateServerBase_update("None") /\ peer) =>
                (wire' = wire \o Incs /\ dirty' = {})
          /\ StateServerBase_update("dt") =>
                (wire' = wire /\ dirty' = dirty /\ timers' = 1)
          /\ (core_timer /\ peer) =>
                (wire' = wire \o Incs /\ dirty' = {} /\ timers' = 0)]_vars

\* C22 witness: update(duration) was called twice, objects are dirty and the one
\* scheduled flush has not run yet.
C22_Witness ==
    /\ peer
    /\ calls = 2
    /\ timers = 1
    /\ dirty = 1..MaxIds

\* The binding generator run on every declared tree.
NextGen ==
    \/ \E d \in StatesFiles : write_states(d)
    \/ set_id_item
    \/ set_id_struct
    \/ set_id_return

SpecGen == Init /\ [][NextGen]_vars

\* structs["States"].set_id has returned
SetIdDone == id_counter # 0 /\ frames = <<>>

\* The ids an instance of the generated class of struct s gives its leaf items, sub-structs
\* expanded in place, from field p on in declared order.
RECURSIVE LeafIdsFrom(_, _)
LeafIdsFrom(s, p) ==
    IF p > Len(structs[s]) THEN <<>>
    ELSE (IF structs[s][p] = Item THEN <<items[s][p]>> ELSE LeafIdsFrom(structs[s][p], 1))
         \o LeafIdsFrom(s, p + 1)

\* some struct type is the type of more than one field of the tree
RECURSIVE UsesFrom(_, _, _)
UsesFrom(s, p, t) ==
    IF p > Len(structs[s]) THEN 0
    ELSE (IF structs[s][p] = Item THEN 0
          ELSE (IF structs[s][p] = t THEN 1 ELSE 0) + UsesFrom(structs[s][p], 1, t))
         + UsesFrom(s, p + 1, t)
TypeReused == \E t \in StructNames : UsesFrom("States", 1, t) > 1

\* C31: when set_id, started at 10 on the States struct, has returned, the leaf items of the
\* declared tree have, in depth-first declared order, the ids 10, 11, 12, ... (so every leaf
\* has an id of its own), also when a sub-struct type is the type of more than one field.
C31_LeafIdsConsecutive ==
    SetIdDone =>
        LET ids == LeafIdsFrom("States", 1)
        IN  \A k \in 1..Len(ids) : ids[k] = FirstId + k - 1


\* A FastEnum subclass of every body, and calls of index and from_index on it.
NextEnum ==
    \/ \E b \in Bodies : init_subclass(b)
    \/ \E k \in 1..MaxMembers : Call_index(k)
    \/ \E i \in (0 - 1)..MaxMembers : Call_from_index(i)

SpecEnum == Init /\ [][NextEnum]_vars

\* the members declared before member m
Before(m) == {q \in Members(body) : q < m}

\* C32: on a FastEnum subclass with n members, from_index(m.index()) is m for every
\* member m, from_index(i).index() is i for every 0 <= i < n, and the index of a member
\* is the number of members declared before it, whatever the values are.
C32_IndexInverse ==
    LET n == Cardinality(Members(body))
    IN  /\ \A m \in Members(body) :
            /\ index(m).raised = "none"
            /\ from_index(index(m).out) = EnumCall("from_index", index(m).out, m, "none")
            /\ index(m).out = Cardinality(Before(m))
        /\ \A i \in 0..(n - 1) :
            /\ from_index(i).raised = "none"
            /\ index(from_index(i).out) = EnumCall("index", from_index(i).out, i, "none")

\* index() was called on the last of three members whose values are declared in
\* falling order, and gave 2
C32_Witness ==
    /\ body = <<2, 1, 0>>
    /\ enumres = EnumCall("index", 3, 2, "none")

====
